---- MODULE Spec2Model ----
(***************************************************************************)
(* Model of the InfluxDB2 returner / engine of salt-influxdb-formula:     *)
(* the pattern router (RegexDict), the event filter and match-predicate   *)
(* selection of event_return, the template Projector, and the points      *)
(* built by returner, event_return and InfluxDB2Exporter.run.             *)
(*                                                                         *)
(* Python values are tagged records:                                       *)
(*   None  [ty |-> "none"]          str   [ty |-> "str",  s |-> "abc"]     *)
(*   bool  [ty |-> "bool", b |-> TRUE]    int [ty |-> "int", n |-> 5]      *)
(*   dict  [ty |-> "dict", d |-> [key |-> value, ...]]                     *)
(*   list  [ty |-> "list", l |-> <<value, ...>>]                           *)
(* Python str is a TLA+ string; ordered dicts whose order the code relies  *)
(* on (route tables, match clauses) are sequences of <<key, value>> pairs. *)
(***************************************************************************)
EXTENDS Integers, Sequences, FiniteSets, TLC

VARIABLES options, context, call, result

vars == <<options, context, call, result>>

(***************************************************************************)
(* Regular expressions (Python's re, a backtracking matcher).              *)
(***************************************************************************)
Lit(s) == [t |-> "lit", s |-> s]
AnyChar == [t |-> "any"]
Class(cs) == [t |-> "set", cs |-> cs]
NotClass(cs) == [t |-> "nset", cs |-> cs]
Cat(l, r) == [t |-> "cat", l |-> l, r |-> r]
Alt(l, r) == [t |-> "alt", l |-> l, r |-> r]
Star(r) == [t |-> "star", r |-> r]
Plus(r) == [t |-> "plus", r |-> r]
Rep(r, n) == [t |-> "rep", r |-> r, n |-> n]
Grp(r) == [t |-> "grp", r |-> r]
\* a pattern re.compile rejects (re.error)
BadPattern == [t |-> "bad"]

Digit == Class({"0", "1", "2", "3", "4", "5", "6", "7", "8", "9"})
\* \w restricted to the characters the model's keys are written with
Word == Class({"a", "b", "c", "d", "e", "f", "g", "h", "i", "j", "k", "l", "m",
               "n", "o", "p", "q", "r", "s", "t", "u", "v", "w", "x", "y", "z",
               "_", "0", "1", "2", "3", "4", "5", "6", "7", "8", "9"})

RECURSIVE NGroups(_)
\* number of capture groups a pattern opens
NGroups(re) ==
    CASE re.t = "grp" -> 1 + NGroups(re.r)
      [] re.t \in {"cat", "alt"} -> NGroups(re.l) + NGroups(re.r)
      [] re.t \in {"star", "plus", "rep"} -> NGroups(re.r)
      [] OTHER -> 0

RECURSIVE IsBad(_)
\* does the pattern contain a fragment re.compile rejects
IsBad(re) ==
    CASE re.t = "bad" -> TRUE
      [] re.t \in {"cat", "alt"} -> IsBad(re.l) \/ IsBad(re.r)
      [] re.t \in {"star", "plus", "rep", "grp"} -> IsBad(re.r)
      [] OTHER -> FALSE

CharAt(s, pos) == SubSeq(s, pos + 1, pos + 1)

RECURSIVE ReMatch(_, _, _, _, _)
RECURSIVE ReCat(_, _, _, _)
(* All ways `re` matches `s` from offset `pos`, in the order the           *)
(* backtracking matcher tries them: a sequence of <<end offset, lastindex>>.*)
(* `base` is the number of groups opened left of `re`, `last` the index of *)
(* the group closed last so far (0: none).                                 *)
ReMatch(re, s, pos, base, last) ==
    CASE re.t = "lit" ->
            IF /\ pos + Len(re.s) <= Len(s)
               /\ SubSeq(s, pos + 1, pos + Len(re.s)) = re.s
            THEN << <<pos + Len(re.s), last>> >> ELSE <<>>
      [] re.t = "any" ->
            IF pos < Len(s) /\ CharAt(s, pos) # "\n"
            THEN << <<pos + 1, last>> >> ELSE <<>>
      [] re.t = "set" ->
            IF pos < Len(s) /\ CharAt(s, pos) \in re.cs
            THEN << <<pos + 1, last>> >> ELSE <<>>
      [] re.t = "nset" ->
            IF pos < Len(s) /\ CharAt(s, pos) \notin re.cs
            THEN << <<pos + 1, last>> >> ELSE <<>>
      [] re.t = "grp" ->
            LET inner == ReMatch(re.r, s, pos, base + 1, last)
            IN  [i \in 1..Len(inner) |-> <<inner[i][1], base + 1>>]
      [] re.t = "alt" ->
            ReMatch(re.l, s, pos, base, last)
                \o ReMatch(re.r, s, pos, base + NGroups(re.l), last)
      [] re.t = "cat" ->
            ReCat(ReMatch(re.l, s, pos, base, last), re.r, s,
                  base + NGroups(re.l))
      [] re.t = "star" ->
            LET once == ReMatch(re.r, s, pos, base, last)
                more == SelectSeq(once, LAMBDA m : m[1] > pos)
            IN  ReCat(more, re, s, base) \o << <<pos, last>> >>
      [] re.t = "plus" ->
            ReCat(ReMatch(re.r, s, pos, base, last), Star(re.r), s, base)
      [] re.t = "rep" ->
            IF re.n = 0 THEN << <<pos, last>> >>
            ELSE ReCat(ReMatch(re.r, s, pos, base, last),
                       Rep(re.r, re.n - 1), s, base)
      [] OTHER -> <<>>

ReCat(lres, r, s, base) ==
    IF lres = <<>> THEN <<>>
    ELSE ReMatch(r, s, Head(lres)[1], base, Head(lres)[2])
            \o ReCat(Tail(lres), r, s, base)

NoMatch == [matched |-> FALSE]

(* re.fullmatch(pattern, string) for a str: the first way to match that    *)
(* ends at the end of the string, with its lastindex (0 is Python's None). *)
fullmatch(re, s) ==
    LET all == ReMatch(re, s, 0, 0, 0)
        full == SelectSeq(all, LAMBDA m : m[1] = Len(s))
    IN  IF full = <<>> THEN NoMatch
        ELSE [matched |-> TRUE, lastindex |-> Head(full)[2]]

(***************************************************************************)
(* The patterns of the model, as re parses them.  The program's own        *)
(* patterns (INBUILT_EVENT_POINTS, DEFAULT_EVENTS_BLOCKLIST, the match     *)
(* clause of salt/run/\d+/args) are written as in the source; the others   *)
(* stand for user configuration.                                           *)
(***************************************************************************)
NoSlash == NotClass({"/", "\\"})

Ast(p) ==
    CASE p = ".*" -> Star(AnyChar)
      [] p = "a.*" -> Cat(Lit("a"), Star(AnyChar))
      [] p = "ab" -> Lit("ab")
      [] p = "b" -> Lit("b")
      [] p = "(a|b)c" -> Cat(Grp(Alt(Lit("a"), Lit("b"))), Lit("c"))
      [] p = "a+" -> Plus(Lit("a"))
      [] p = "x" -> Lit("x")
      [] p = "\\d" -> Digit
      [] p = "null|None" -> Alt(Lit("null"), Lit("None"))
      [] p = "True" -> Lit("True")
      [] p = "(" -> BadPattern
      [] p = "my/.*" -> Cat(Lit("my/"), Star(AnyChar))
      [] p = "my/custom/event" -> Lit("my/custom/event")
      [] p = "my/other/event" -> Lit("my/other/event")
      [] p = "(my|your)/event" ->
            Cat(Grp(Alt(Lit("my"), Lit("your"))), Lit("/event"))
      [] p = "(db|app)\\d+" ->
            Cat(Grp(Alt(Lit("db"), Lit("app"))), Plus(Digit))
      [] p = "special" -> Lit("special")
      [] p = "(state|function)" -> Grp(Alt(Lit("state"), Lit("function")))
      [] p = "\\d{20}" -> Rep(Digit, 20)
      [] p = "\\w+\\.\\w+" -> Cat(Plus(Word), Cat(Lit("."), Plus(Word)))
      [] p = "_salt_error" -> Lit("_salt_error")
      [] p = "salt/auth" -> Lit("salt/auth")
      [] p = "salt/job/\\d+/new" ->
            Cat(Lit("salt/job/"), Cat(Plus(Digit), Lit("/new")))
      [] p = "salt/job/\\d+/ret/[^/\\\\]+" ->
            Cat(Lit("salt/job/"), Cat(Plus(Digit),
                Cat(Lit("/ret/"), Plus(NoSlash))))
      [] p = "salt/key" -> Lit("salt/key")
      [] p = "key" -> Lit("key")
      [] p = "salt/minion/[^/\\\\]+/start" ->
            Cat(Lit("salt/minion/"), Cat(Plus(NoSlash), Lit("/start")))
      [] p = "minion/refresh/[^/\\\\]+" ->
            Cat(Lit("minion/refresh/"), Plus(NoSlash))
      [] p = "salt/run/\\d+/args" ->
            Cat(Lit("salt/run/"), Cat(Plus(Digit), Lit("/args")))
      [] p = "salt/run/\\d+/new" ->
            Cat(Lit("salt/run/"), Cat(Plus(Digit), Lit("/new")))
      [] p = "salt/run/\\d+/ret" ->
            Cat(Lit("salt/run/"), Cat(Plus(Digit), Lit("/ret")))
      [] p = "salt/wheel/\\d+/new" ->
            Cat(Lit("salt/wheel/"), Cat(Plus(Digit), Lit("/new")))
      [] p = "salt/wheel/\\d+/ret" ->
            Cat(Lit("salt/wheel/"), Cat(Plus(Digit), Lit("/ret")))
      [] p = "vault/cache/\\w+/clear" ->
            Cat(Lit("vault/cache/"), Cat(Plus(Word), Lit("/clear")))
      [] p = "vault/security/unwrapping/error" ->
            Lit("vault/security/unwrapping/error")
      [] p = "state\\..*" -> Cat(Lit("state."), Star(AnyChar))
      [] p = "test\\.ping" -> Lit("test.ping")

RECURSIVE JoinFrom(_, _)
JoinFrom(patterns, i) ==
    IF i = Len(patterns) THEN Grp(Ast(patterns[i]))
    ELSE Alt(Grp(Ast(patterns[i])), JoinFrom(patterns, i + 1))

(* _join_regex and RegexDict._regex: "|".join(f"({ptrn})" ...), every      *)
(* pattern wrapped in a group of its own and the groups joined as          *)
(* alternatives; the empty list joins to the empty pattern.                *)
_join_regex(patterns) ==
    IF patterns = <<>> THEN Lit("") ELSE JoinFrom(patterns, 1)

(***************************************************************************)
(* Outcomes of a call: a returned value or a raised exception.             *)
(***************************************************************************)
Return(v) == [st |-> "ok", v |-> v]
Raise(exc) == [st |-> "raise", exc |-> exc]

(***************************************************************************)
(* RegexDict.  mappings is the ordered mapping, a sequence of              *)
(* <<pattern, payload>> pairs with distinct patterns.                       *)
(***************************************************************************)
Patterns(mappings) == [i \in 1..Len(mappings) |-> mappings[i][1]]

\* the end of RegexDict.__init__: re.compile(self._regex) if compile_ptrn
Compile(rd, compile_ptrn) ==
    IF compile_ptrn /\ IsBad(rd._regex) THEN Raise("re.error") ELSE Return(rd)

(* RegexDict.__init__: with compile_ptrn the joined pattern is compiled    *)
(* here, and a malformed pattern raises here.                              *)
RegexDict(mappings, compile_ptrn) ==
    Compile([_patterns |-> Patterns(mappings),
             _data |-> [i \in 1..Len(mappings) |-> mappings[i][2]],
             _regex |-> _join_regex(Patterns(mappings))],
            compile_ptrn)

\* the index RegexDict.__getitem__ reads _data at (0-based, as in Python)
DataIndex(match) == match.lastindex - 1

\* the end of RegexDict.__getitem__: _data[match.lastindex - 1] or KeyError
MatchData(rd, match) ==
    IF match.matched
    THEN IF match.lastindex = 0 THEN Raise("TypeError")
         ELSE IF DataIndex(match) + 1 \in 1..Len(rd._data)
              THEN Return(rd._data[DataIndex(match) + 1])
              ELSE Raise("IndexError")
    ELSE Raise("KeyError")

(* RegexDict.__getitem__: fullmatch of the joined pattern (compiled in     *)
(* __init__, or here when compile_ptrn=False), then _data[lastindex - 1].  *)
RegexDict__getitem__(rd, key) ==
    IF IsBad(rd._regex) THEN Raise("re.error")
    ELSE MatchData(rd, fullmatch(rd._regex, key))

(***************************************************************************)
(* Python values.                                                          *)
(***************************************************************************)
None == [ty |-> "none"]
Str(s) == [ty |-> "str", s |-> s]
PyInt(n) == [ty |-> "int", n |-> n]
Bool(b) == [ty |-> "bool", b |-> b]
\* a float, kept as the text repr() gives it
Float(r) == [ty |-> "float", r |-> r]
\* a list of values
List(l) == [ty |-> "list", l |-> l]
\* a dict with str keys, in insertion order: a sequence of <<key, value>>
Dict(kv) == [ty |-> "dict", kv |-> kv]
\* the KeyError class, passed as the default that marks a miss
Missing == [ty |-> "KeyErrorClass"]

HasKey(d, k) == \E i \in 1..Len(d.kv) : d.kv[i][1] = k
GetKey(d, k) == d.kv[CHOOSE i \in 1..Len(d.kv) : d.kv[i][1] = k][2]

\* isinstance(val, (int, float, str, bool))
IsScalar(v) == v.ty \in {"int", "float", "str", "bool"}

(***************************************************************************)
(* Python str operations.                                                  *)
(***************************************************************************)
RECURSIVE FindFrom(_, _, _)
\* offset (1-based) of the first character c of s at or after i, 0 if none
FindFrom(s, c, i) ==
    IF i > Len(s) THEN 0
    ELSE IF SubSeq(s, i, i) = c THEN i ELSE FindFrom(s, c, i + 1)

\* c in s
Contains(s, c) == FindFrom(s, c, 1) # 0

RECURSIVE Split(_, _)
\* s.split(c) for a one-character separator
Split(s, c) ==
    LET i == FindFrom(s, c, 1) IN
    IF i = 0 THEN <<s>>
    ELSE <<SubSeq(s, 1, i - 1)>> \o Split(SubSeq(s, i + 1, Len(s)), c)

DigitChars == <<"0", "1", "2", "3", "4", "5", "6", "7", "8", "9">>

DigitVal(c) == (CHOOSE i \in 1..10 : DigitChars[i] = c) - 1

\* s.isdigit() for ASCII text
IsDigits(s) ==
    /\ Len(s) > 0
    /\ \A i \in 1..Len(s) : \E j \in 1..10 : DigitChars[j] = SubSeq(s, i, i)

RECURSIVE DigitsToInt(_)
DigitsToInt(s) ==
    IF Len(s) = 0 THEN 0
    ELSE 10 * DigitsToInt(SubSeq(s, 1, Len(s) - 1))
            + DigitVal(SubSeq(s, Len(s), Len(s)))

\* does int(s) succeed: an optional sign and decimal digits
IsIntText(s) ==
    \/ IsDigits(s)
    \/ /\ Len(s) > 1
       /\ SubSeq(s, 1, 1) \in {"-", "+"}
       /\ IsDigits(SubSeq(s, 2, Len(s)))

\* int(s)
ParseInt(s) ==
    IF SubSeq(s, 1, 1) = "-" THEN 0 - DigitsToInt(SubSeq(s, 2, Len(s)))
    ELSE IF SubSeq(s, 1, 1) = "+" THEN DigitsToInt(SubSeq(s, 2, Len(s)))
    ELSE DigitsToInt(s)

RECURSIVE NatToStr(_)
NatToStr(n) ==
    IF n < 10 THEN DigitChars[n + 1]
    ELSE NatToStr(n \div 10) \o DigitChars[(n % 10) + 1]

\* str(n) of an int
IntToStr(n) == IF n < 0 THEN "-" \o NatToStr(0 - n) ELSE NatToStr(n)

RECURSIVE JoinStr(_, _)
\* sep.join(parts)
JoinStr(parts, sep) ==
    IF parts = <<>> THEN ""
    ELSE IF Len(parts) = 1 THEN parts[1]
    ELSE parts[1] \o sep \o JoinStr(Tail(parts), sep)

RECURSIVE JsonEscape(_)
\* the body of a JSON string: json.dumps escapes quote and backslash
JsonEscape(s) ==
    IF Len(s) = 0 THEN ""
    ELSE LET c == SubSeq(s, 1, 1) IN
         (IF c = "\"" THEN "\\\"" ELSE IF c = "\\" THEN "\\\\"
          ELSE IF c = "\n" THEN "\\n" ELSE c)
            \o JsonEscape(SubSeq(s, 2, Len(s)))

\* the text of one byte in str(o) of a bytes object o
ByteText(n) ==
    CASE n = 97 -> "a"
      [] n = 98 -> "b"
      [] n = 10 -> "\\n"
      [] n = 92 -> "\\\\"
      [] n = 255 -> "\\xff"

RECURSIVE BytesText(_)
\* str(o)[2:-1] of the bytes object with the bytes b
BytesText(b) ==
    IF b = <<>> THEN "" ELSE ByteText(Head(b)) \o BytesText(Tail(b))

(* BytesEncoder.default: bytes become the text of their repr without b'';  *)
(* for any other object JSONEncoder.default raises TypeError.              *)
BytesEncoder(o) ==
    IF o.ty = "bytes" THEN Return(Str(BytesText(o.b))) ELSE Raise("TypeError")

RECURSIVE Encodable(_)
\* does json.dumps reach no object that BytesEncoder.default rejects
Encodable(v) ==
    CASE v.ty = "list" -> \A i \in 1..Len(v.l) : Encodable(v.l[i])
      [] v.ty = "dict" -> \A i \in 1..Len(v.kv) : Encodable(v.kv[i][2])
      [] v.ty \in {"none", "bool", "int", "float", "str"} -> TRUE
      [] OTHER -> BytesEncoder(v).st = "ok"

RECURSIVE JsonText(_)
(* json.dumps(val, cls=BytesEncoder) of a value built from None, bool,     *)
(* int, float, str, bytes, list and dict: the text it returns.             *)
JsonText(v) ==
    CASE v.ty = "none" -> "null"
      [] v.ty = "bytes" -> JsonText(BytesEncoder(v).v)
      [] v.ty = "bool" -> IF v.b THEN "true" ELSE "false"
      [] v.ty = "int" -> IntToStr(v.n)
      [] v.ty = "float" -> v.r
      [] v.ty = "str" -> "\"" \o JsonEscape(v.s) \o "\""
      [] v.ty = "list" ->
            "[" \o JoinStr([i \in 1..Len(v.l) |-> JsonText(v.l[i])], ", ")
                \o "]"
      [] v.ty = "dict" ->
            "{" \o JoinStr([i \in 1..Len(v.kv) |->
                              "\"" \o JsonEscape(v.kv[i][1]) \o "\": "
                                  \o JsonText(v.kv[i][2])], ", ")
                \o "}"

RECURSIVE PyRepr(_)
\* repr(val); the model's strings hold no quote characters
PyRepr(v) ==
    CASE v.ty = "none" -> "None"
      [] v.ty = "bool" -> IF v.b THEN "True" ELSE "False"
      [] v.ty = "int" -> IntToStr(v.n)
      [] v.ty = "float" -> v.r
      [] v.ty = "str" -> "'" \o v.s \o "'"
      [] v.ty = "list" ->
            "[" \o JoinStr([i \in 1..Len(v.l) |-> PyRepr(v.l[i])], ", ")
                \o "]"
      [] v.ty = "dict" ->
            "{" \o JoinStr([i \in 1..Len(v.kv) |->
                              "'" \o v.kv[i][1] \o "': "
                                  \o PyRepr(v.kv[i][2])], ", ")
                \o "}"

\* str(val)
PyStr(v) == IF v.ty = "str" THEN v.s ELSE PyRepr(v)

(***************************************************************************)
(* salt.utils.data.traverse_dict_and_list(data, key, default) with the     *)
(* ":" delimiter: every segment indexes a dict by key or a list by         *)
(* integer index (or, for a non-numeric segment, the first dict of the     *)
(* list holding that key); a miss returns default.                         *)
(***************************************************************************)
RECURSIVE TraverseFrom(_, _, _)
TraverseFrom(ptr, segs, default) ==
    IF segs = <<>> THEN ptr
    ELSE LET each == Head(segs) IN
         IF ptr.ty = "list"
         THEN IF IsIntText(each)
              THEN LET idx == ParseInt(each)
                       n == Len(ptr.l) IN
                   IF idx >= 0 /\ idx < n
                   THEN TraverseFrom(ptr.l[idx + 1], Tail(segs), default)
                   ELSE IF idx < 0 /\ 0 - idx <= n
                   THEN TraverseFrom(ptr.l[n + idx + 1], Tail(segs), default)
                   ELSE default
              ELSE LET hits == {i \in 1..Len(ptr.l) :
                                  /\ ptr.l[i].ty = "dict"
                                  /\ HasKey(ptr.l[i], each)} IN
                   IF hits = {} THEN default
                   ELSE TraverseFrom(
                            GetKey(ptr.l[CHOOSE i \in hits :
                                            \A j \in hits : i <= j], each),
                            Tail(segs), default)
         ELSE IF ptr.ty = "dict" /\ HasKey(ptr, each)
         THEN TraverseFrom(GetKey(ptr, each), Tail(segs), default)
         ELSE default

traverse_dict_and_list(data, key, default) ==
    TraverseFrom(data, Split(key, ":"), default)

(***************************************************************************)
(* string.Formatter.parse: the format string cut into items of literal     *)
(* text and an optional replacement field (name, spec, conversion).        *)
(* A malformed format string is ParseError (Python's ValueError).          *)
(***************************************************************************)
ParseError == [ok |-> FALSE]

RECURSIVE BraceFrom(_, _)
\* offset of the first "{" or "}" of s at or after i, 0 if none
BraceFrom(s, i) ==
    IF i > Len(s) THEN 0
    ELSE IF SubSeq(s, i, i) \in {"{", "}"} THEN i ELSE BraceFrom(s, i + 1)

RECURSIVE FieldNameEnd(_, _)
(* The offset of the character ending the field name that starts at p      *)
(* ("}", ":" or "!"), skipping [...] indexes; 0 when the name holds a "{"  *)
(* or the string ends first.                                               *)
FieldNameEnd(s, p) ==
    IF p > Len(s) THEN 0
    ELSE LET c == SubSeq(s, p, p) IN
         IF c = "{" THEN 0
         ELSE IF c \in {"}", ":", "!"} THEN p
         ELSE IF c = "["
              THEN LET close == FindFrom(s, "]", p + 1) IN
                   IF close = 0 THEN 0 ELSE FieldNameEnd(s, close)
         ELSE FieldNameEnd(s, p + 1)

RECURSIVE SpecEnd(_, _, _)
\* offset of the "}" closing the format spec that starts at p, 0 if none
SpecEnd(s, p, depth) ==
    IF p > Len(s) THEN 0
    ELSE LET c == SubSeq(s, p, p) IN
         IF c = "{" THEN SpecEnd(s, p + 1, depth + 1)
         ELSE IF c = "}"
              THEN IF depth = 1 THEN p ELSE SpecEnd(s, p + 1, depth - 1)
         ELSE SpecEnd(s, p + 1, depth)

(* The replacement field starting at p (just after its "{") whose name     *)
(* ends at offset e.                                                       *)
FieldFrom(s, p, e) ==
    IF e = 0 THEN ParseError
    ELSE LET name == SubSeq(s, p, e - 1)
             c == SubSeq(s, e, e) IN
         IF c = "}"
         THEN [ok |-> TRUE, name |-> name, spec |-> "", conv |-> "",
               next |-> e + 1]
         ELSE LET conv == IF c = "!" THEN SubSeq(s, e + 1, e + 1) ELSE ""
                  \* offset just after the conversion, if any
                  q == IF c = "!" THEN e + 2 ELSE e
              IN
              IF c = "!" /\ e + 1 > Len(s) THEN ParseError
              ELSE IF c = "!" /\ q <= Len(s) /\ SubSeq(s, q, q) = "}"
              THEN [ok |-> TRUE, name |-> name, spec |-> "", conv |-> conv,
                    next |-> q + 1]
              ELSE IF c = "!" /\ q <= Len(s) /\ SubSeq(s, q, q) # ":"
              THEN ParseError
              ELSE LET close == SpecEnd(s, q + 1, 1) IN
                   IF close = 0 THEN ParseError
                   ELSE [ok |-> TRUE, name |-> name,
                         spec |-> SubSeq(s, q + 1, close - 1),
                         conv |-> conv, next |-> close + 1]

\* the replacement field starting at p (just after its "{")
ParseField(s, p) == FieldFrom(s, p, FieldNameEnd(s, p))

\* the item put in front of the items parsed after it
Prepend(item, rest) ==
    IF ~rest.ok THEN ParseError
    ELSE [ok |-> TRUE, items |-> <<item>> \o rest.items]

RECURSIVE ParseFrom(_, _)

\* the items of s from start on, a replacement field f following the "{" at i
FieldAt(s, start, i, f) ==
    IF ~f.ok THEN ParseError
    ELSE Prepend([lit |-> SubSeq(s, start, i - 1), field |-> TRUE,
                  name |-> f.name, spec |-> f.spec, conv |-> f.conv],
                 ParseFrom(s, f.next))

\* the items of s from start on, its first brace at or after start being at i
BraceAt(s, start, i) ==
    IF i = 0
    THEN [ok |-> TRUE,
          items |-> <<[lit |-> SubSeq(s, start, Len(s)), field |-> FALSE]>>]
    ELSE LET c == SubSeq(s, i, i)
             at_end == i + 1 > Len(s)
             follow == SubSeq(s, i + 1, i + 1)
         IN
         IF c = "}" /\ (at_end \/ follow # "}") THEN ParseError
         ELSE IF at_end THEN ParseError
         ELSE IF follow = c
         THEN \* an escaped brace: literal text up to and with it
              Prepend([lit |-> SubSeq(s, start, i), field |-> FALSE],
                      ParseFrom(s, i + 2))
         ELSE FieldAt(s, start, i, ParseField(s, i + 1))

(* Formatter.parse from offset start on: the literal texts and the         *)
(* replacement fields in order, or ParseError.                             *)
ParseFrom(s, start) ==
    IF start > Len(s) THEN [ok |-> TRUE, items |-> <<>>]
    ELSE BraceAt(s, start, BraceFrom(s, start))

\* string.Formatter.parse(format_string)
FormatterParse(s) == ParseFrom(s, 1)

\* parsed[0], ":".join((parsed[1], parsed[2])), "", parsed[3] of each item
JoinSpecs(parsed) ==
    IF ~parsed.ok THEN parsed
    ELSE [ok |-> TRUE,
          items |-> [k \in 1..Len(parsed.items) |->
                        LET it == parsed.items[k] IN
                        IF it.field /\ it.spec # ""
                        THEN [it EXCEPT !.name = it.name \o ":" \o it.spec,
                                        !.spec = ""]
                        ELSE it]]

(* JsonFormatter.parse: a non-empty format spec is put back into the field *)
(* name behind a ":", so that {data:id} names the path data:id.            *)
JsonFormatterParse(s) == JoinSpecs(FormatterParse(s))

(***************************************************************************)
(* _string.formatter_field_name_split: the field name cut into its first   *)
(* part and the .attr / [index] accesses that follow it.                   *)
(***************************************************************************)
RECURSIVE AccessFrom(_, _)
\* offset of the first "." or "[" of s at or after i, Len(s) + 1 if none
AccessFrom(s, i) ==
    IF i > Len(s) THEN i
    ELSE IF SubSeq(s, i, i) \in {".", "["} THEN i ELSE AccessFrom(s, i + 1)

RECURSIVE FieldRest(_, _)
(* the accesses of s from offset i: a sequence of [attr, key], or          *)
(* ParseError for an empty attribute, a missing "]" or text after a "]"    *)
FieldRest(s, i) ==
    IF i > Len(s) THEN [ok |-> TRUE, items |-> <<>>]
    ELSE LET c == SubSeq(s, i, i) IN
         IF c = "."
         THEN LET e == AccessFrom(s, i + 1)
                  rest == FieldRest(s, e) IN
              IF e = i + 1 \/ ~rest.ok THEN ParseError
              ELSE [ok |-> TRUE,
                    items |-> <<[attr |-> TRUE,
                                 key |-> SubSeq(s, i + 1, e - 1)]>>
                                \o rest.items]
         ELSE IF c = "["
         THEN LET close == FindFrom(s, "]", i + 1) IN
              IF close = 0 \/ close = i + 1 THEN ParseError
              ELSE LET rest == FieldRest(s, close + 1) IN
                   IF ~rest.ok THEN ParseError
                   ELSE [ok |-> TRUE,
                         items |-> <<[attr |-> FALSE,
                                      key |-> SubSeq(s, i + 1, close - 1)]>>
                                     \o rest.items]
         ELSE ParseError

\* obj[key] of Formatter.get_field, key an int when it is all digits
GetItem(obj, key) ==
    CASE obj.ty = "dict" ->
            IF ~IsDigits(key) /\ HasKey(obj, key)
            THEN Return(GetKey(obj, key)) ELSE Raise("KeyError")
      [] obj.ty = "list" ->
            IF ~IsDigits(key) THEN Raise("TypeError")
            ELSE IF DigitsToInt(key) < Len(obj.l)
            THEN Return(obj.l[DigitsToInt(key) + 1])
            ELSE Raise("IndexError")
      [] obj.ty = "str" ->
            IF ~IsDigits(key) THEN Raise("TypeError")
            ELSE IF DigitsToInt(key) < Len(obj.s)
            THEN Return(Str(CharAt(obj.s, DigitsToInt(key))))
            ELSE Raise("IndexError")
      [] OTHER -> Raise("TypeError")

RECURSIVE GetItems(_, _)
(* the accesses applied in turn; attribute access on the model's values    *)
(* is taken to fail (AttributeError)                                       *)
GetItems(obj, items) ==
    IF items = <<>> THEN Return(obj)
    ELSE IF Head(items).attr THEN Raise("AttributeError")
    ELSE LET r == GetItem(obj, Head(items).key) IN
         IF r.st = "raise" THEN r ELSE GetItems(r.v, Tail(items))

(***************************************************************************)
(* The functions of a Projector's mappings.  A mapping value is            *)
(*   [kind |-> "fn", fn |-> name]   a function of the data, below;         *)
(*   [kind |-> "env", r |-> outcome] a function that ignores the data and  *)
(*                                  reads the daemon's environment;        *)
(*   [kind |-> "value", v |-> value] an object that is not callable.       *)
(***************************************************************************)
Fn(name) == [kind |-> "fn", fn |-> name]
EnvFn(r) == [kind |-> "env", r |-> r]
NotCallable(v) == [kind |-> "value", v |-> v]

\* x[key] of a dict
Subscript(x, key) ==
    IF x.ty = "dict" /\ HasKey(x, key) THEN Return(GetKey(x, key))
    ELSE IF x.ty = "dict" THEN Raise("KeyError") ELSE Raise("TypeError")

\* x.get(key, default) of a dict
DictGet(x, key, default) == IF HasKey(x, key) THEN GetKey(x, key) ELSE default

\* bool(val)
Truthy(v) ==
    CASE v.ty = "none" -> FALSE
      [] v.ty = "bool" -> v.b
      [] v.ty = "int" -> v.n # 0
      [] v.ty = "str" -> v.s # ""
      [] v.ty = "list" -> v.l # <<>>
      [] v.ty = "dict" -> v.kv # <<>>
      [] OTHER -> TRUE

\* c in val, for a one-character str c: TypeError when val is no container
PyIn(c, v) ==
    CASE v.ty = "str" -> Return(Contains(v.s, c))
      [] v.ty = "list" -> Return(\E i \in 1..Len(v.l) : v.l[i] = Str(c))
      [] v.ty = "dict" -> Return(HasKey(v, c))
      [] OTHER -> Raise("TypeError")

\* "module": lambda x: x["fun"].split(".")[0]
module(x) ==
    LET fun == Subscript(x, "fun") IN
    IF fun.st = "raise" THEN fun
    ELSE IF fun.v.ty # "str" THEN Raise("AttributeError")
    ELSE Return(Str(Split(fun.v.s, ".")[1]))

\* "ret_str": lambda x: str(x["return"])
ret_str(x) ==
    LET r == Subscript(x, "return") IN
    IF r.st = "raise" THEN r ELSE Return(Str(PyStr(r.v)))

\* "full_ret": lambda x: json.dumps({k: v for k, v in x.items() if k != "return"})
full_ret(x) ==
    Return(Str(JsonText(Dict(SelectSeq(x.kv, LAMBDA kv : kv[1] # "return")))))

(* "state_name": "highstate" for state.highstate and for state.apply       *)
(* without a positional argument, else the first positional argument       *)
state_name(x) ==
    LET fun == Subscript(x, "fun") IN
    IF fun.st = "raise" THEN fun
    ELSE IF fun.v = Str("state.highstate") THEN Return(Str("highstate"))
    ELSE LET args == Subscript(x, "fun_args") IN
         IF args.st = "raise" THEN args
         ELSE IF fun.v = Str("state.apply") /\ ~Truthy(args.v)
         THEN Return(Str("highstate"))
         ELSE IF args.v.ty # "list" THEN Raise("TypeError")
         ELSE IF args.v.l = <<>> THEN Raise("IndexError")
         ELSE IF fun.v = Str("state.apply")
         THEN LET eq == PyIn("=", args.v.l[1]) IN
              IF eq.st = "raise" THEN eq
              ELSE IF eq.v THEN Return(Str("highstate"))
              ELSE Return(args.v.l[1])
         ELSE Return(args.v.l[1])

(***************************************************************************)
(* StateSum: the counts over the sub-results of a state run, summed once   *)
(* and kept in the object.  Durations are ints in the model.               *)
(***************************************************************************)
StateSum(data) ==
    [data |-> data, _succeeded |-> None, _failed |-> None, _total |-> None,
     _changed |-> None, _duration |-> None]

\* the sub-results: self.data.get("return", {}).values()
SubResults(data) ==
    LET ret == DictGet(data, "return", Dict(<<>>)) IN
    [i \in 1..Len(ret.kv) |-> ret.kv[i][2]]

\* can the pass read this sub-result: single["result"], single.get(...)
Summable(single) ==
    /\ single.ty = "dict"
    /\ HasKey(single, "result")
    /\ DictGet(single, "duration", PyInt(0)).ty = "int"

\* SumOver with a None result counted as failed
RECURSIVE SumOverNeutralFails(_, _)
SumOverNeutralFails(subs, acc) ==
    IF subs = <<>> THEN acc
    ELSE LET single == Head(subs)
             bad == GetKey(single, "result") # Bool(TRUE)
         IN SumOverNeutralFails(Tail(subs),
                [total |-> acc.total + 1,
                 failed |-> acc.failed + (IF bad THEN 1 ELSE 0),
                 succeeded |-> acc.succeeded + (IF bad THEN 0 ELSE 1),
                 changed |-> acc.changed
                    + (IF Truthy(DictGet(single, "changes", None))
                       THEN 1 ELSE 0),
                 duration |-> acc.duration
                    + DictGet(single, "duration", PyInt(0)).n])

RECURSIVE SumOver(_, _)
SumOver(subs, acc) ==
    IF subs = <<>> THEN acc
    ELSE LET single == Head(subs)
             bad == GetKey(single, "result") = Bool(FALSE)
         IN SumOver(Tail(subs),
                [total |-> acc.total + 1,
                 failed |-> acc.failed + (IF bad THEN 1 ELSE 0),
                 succeeded |-> acc.succeeded + (IF bad THEN 0 ELSE 1),
                 changed |-> acc.changed
                    + (IF Truthy(DictGet(single, "changes", None))
                       THEN 1 ELSE 0),
                 duration |-> acc.duration
                    + DictGet(single, "duration", PyInt(0)).n])

\* the five fields as one pass leaves them
Sums(acc) ==
    [_failed |-> PyInt(acc.failed), _succeeded |-> PyInt(acc.succeeded),
     _total |-> PyInt(acc.total), _changed |-> PyInt(acc.changed),
     _duration |-> PyInt(acc.duration)]

\* the pass over the sub-results subs; ran records that _sum was called
SumInto(self, subs) ==
    IF \E i \in 1..Len(subs) : ~Summable(subs[i])
    THEN [r |-> Raise(IF \E i \in 1..Len(subs) : subs[i].ty # "dict"
                      THEN "TypeError" ELSE "KeyError"),
          self |-> self, ran |-> TRUE]
    ELSE [r |-> Return(None), ran |-> TRUE,
          self |-> Sums(SumOver(subs, [total |-> 0, failed |-> 0,
                                       succeeded |-> 0, changed |-> 0,
                                       duration |-> 0]))
                    @@ self]

(* StateSum._sum: one pass over the sub-results that sets the five fields; *)
(* a sub-result the pass cannot read raises and leaves the fields unset.   *)
_sum(self) == SumInto(self, SubResults(self.data))

\* Summed without the test of the field: every accessor sums again
SummedAlways(self, field) == _sum(self)

\* the accessor pattern: if self.<field> is None: self._sum(); return ...
Summed(self, field) == IF self[field] = None THEN _sum(self)
                       ELSE [r |-> Return(None), self |-> self, ran |-> FALSE]

\* return self.<field>, s being what the sum before it left
FieldOf(s, field) ==
    IF s.r.st = "raise" THEN s ELSE [s EXCEPT !.r = Return(s.self[field])]

SumField(self, field) == FieldOf(Summed(self, field), field)

\* repr of the float h / 100, h >= 0
HundredthsText(h) ==
    IntToStr(h \div 100) \o "."
        \o (IF h % 10 = 0 THEN IntToStr((h % 100) \div 10)
            ELSE IntToStr((h % 100) \div 10) \o IntToStr(h % 10))

\* round(count / total * 100, 2), total > 0, ties to even
Pct(count, total) ==
    LET num == count * 10000
        q == num \div total
        r2 == 2 * (num % total)
        h == IF r2 > total \/ (r2 = total /\ q % 2 = 1) THEN q + 1 ELSE q
    IN Float(HundredthsText(h))

\* return round(self.<field> / self._total * 100, 2), s as in FieldOf
PctOf(s, field) ==
    IF s.r.st = "raise" THEN s
    ELSE IF s.self._total.n = 0
    THEN [s EXCEPT !.r = Raise("ZeroDivisionError")]
    ELSE [s EXCEPT !.r = Return(Pct(s.self[field].n, s.self._total.n))]

SumPct(self, field) == PctOf(Summed(self, field), field)

succeeded(self) == SumField(self, "_succeeded")
succeeded_pct(self) == SumPct(self, "_succeeded")
failed(self) == SumField(self, "_failed")
failed_pct(self) == SumPct(self, "_failed")
total(self) == SumField(self, "_total")
changed(self) == SumField(self, "_changed")
changed_pct(self) == SumPct(self, "_changed")
duration(self) == SumField(self, "_duration")

(* A function of a Projector's mappings applied to the data.  The StateSum *)
(* methods are bound to the StateSum made from the same return; the data   *)
(* does not change during one returner call, so each reads what a first    *)
(* pass over it gives.                                                     *)
CallFn(fn, x) ==
    CASE fn = "module" -> module(x)
      [] fn = "ret_str" -> ret_str(x)
      [] fn = "full_ret" -> full_ret(x)
      [] fn = "state_name" -> state_name(x)
      [] fn = "states_total" -> total(StateSum(x)).r
      [] fn = "states_succeeded" -> succeeded(StateSum(x)).r
      [] fn = "states_succeeded_pct" -> succeeded_pct(StateSum(x)).r
      [] fn = "states_failed" -> failed(StateSum(x)).r
      [] fn = "states_failed_pct" -> failed_pct(StateSum(x)).r
      [] fn = "states_changed" -> changed(StateSum(x)).r
      [] fn = "states_changed_pct" -> changed_pct(StateSum(x)).r
      [] fn = "states_duration" -> duration(StateSum(x)).r
      \* the engine's "mom" and "syndic": bool(x.get(<key>)) of {"opts": ...}
      [] fn = "mom" -> Return(Bool(Truthy(DictGet(x, "order_masters", None))))
      [] fn = "syndic" -> Return(Bool(Truthy(DictGet(x, "syndi_master", None))))

\* self.mappings[key](self.data)
CallMapping(m, x) ==
    CASE m.kind = "value" -> Raise("TypeError")
      [] m.kind = "env" -> m.r
      [] m.kind = "fn" -> CallFn(m.fn, x)

(***************************************************************************)
(* Projector.  mappings: name -> mapping value; data: the record (a dict). *)
(***************************************************************************)
Projector(mappings, data) == [mappings |-> mappings, data |-> data]

\* json.dumps(val, cls=BytesEncoder)
dumps(val) ==
    IF Encodable(val) THEN Return(Str(JsonText(val))) ELSE Raise("TypeError")

(* Projector._ensure_type: int, float, str and bool are kept, anything     *)
(* else is dumped to its JSON text, which raises for what json cannot      *)
(* encode.                                                                 *)
_ensure_type(val) == IF IsScalar(val) THEN Return(val) ELSE dumps(val)

\* self._ensure_type(...) of what the function of a mapping gave
Ensured(r) == IF r.st = "raise" THEN r ELSE _ensure_type(r.v)

\* Traversed with a stored None taken for a miss
TraversedNoneIsMissing(trav) ==
    IF trav # Missing /\ trav # None THEN Return(trav) ELSE Raise("KeyError")

\* the end of __getitem__: trav if it is not the default, else KeyError
Traversed(trav) == IF trav # Missing THEN Return(trav) ELSE Raise("KeyError")

(* Projector.__getitem__: a key of mappings runs its function on the data  *)
(* (result through _ensure_type); any other key is a path into the data,   *)
(* KeyError when the path misses.                                          *)
Projector__getitem__(self, key) ==
    IF key \in DOMAIN self.mappings
    THEN Ensured(CallMapping(self.mappings[key], self.data))
    ELSE Traversed(traverse_dict_and_list(self.data, key, Missing))

\* the accesses rest applied to the object obj the first part named
GetRest(obj, rest) ==
    IF obj.st = "raise" THEN obj
    ELSE IF ~rest.ok THEN Raise("ValueError")
    ELSE GetItems(obj.v, rest.items)

(* Formatter.get_field: the first part of the field name is looked up in   *)
(* kwargs (the Projector), or in the empty args when it is an integer,     *)
(* then the accesses are applied.                                          *)
get_field(self, field_name) ==
    LET e == AccessFrom(field_name, 1)
        first == SubSeq(field_name, 1, e - 1)
    IN  GetRest(IF IsDigits(first) THEN Raise("IndexError")
                ELSE Projector__getitem__(self, first),
                FieldRest(field_name, e))

\* Formatter.convert_field
convert_field(value, conversion) ==
    CASE conversion = "" -> Return(value)
      [] conversion = "s" -> Return(Str(PyStr(value)))
      [] conversion \in {"r", "a"} -> Return(Str(PyRepr(value)))
      [] OTHER -> Raise("ValueError")

(* JsonFormatter.format_field with the empty format spec: str() of an int, *)
(* float, str or bool, the JSON text of anything else.                     *)
format_field(value) == IF IsScalar(value) THEN PyStr(value) ELSE JsonText(value)

\* text put in front of what the items after it format to
Followed(text, rest) ==
    IF rest.st = "raise" THEN rest ELSE Return(text \o rest.v)

\* the field `it` formatted, conv being its converted value
Converted(it, conv, rest) ==
    IF conv.st = "raise" THEN conv
    ELSE Followed(it.lit \o format_field(conv.v), rest)

\* the field `it` formatted, obj being what get_field gave for its name
FormatField(it, obj, rest) ==
    IF obj.st = "raise" THEN obj
    ELSE Converted(it, convert_field(obj.v, it.conv), rest)

RECURSIVE FormatItems(_, _)
(* Formatter._vformat over the parsed items: the literal texts and the     *)
(* formatted fields concatenated.  An empty or numeric field name indexes  *)
(* the empty args and raises.                                              *)
FormatItems(self, items) ==
    IF items = <<>> THEN Return("")
    ELSE IF ~Head(items).field
    THEN Followed(Head(items).lit, FormatItems(self, Tail(items)))
    ELSE IF Head(items).name = "" THEN Raise("IndexError")
    ELSE FormatField(Head(items), get_field(self, Head(items).name),
                     FormatItems(self, Tail(items)))

\* the formatted text as a str
StrOf(r) == IF r.st = "raise" THEN r ELSE Return(Str(r.v))

\* the parsed format string formatted
Formatted(self, parsed) ==
    IF ~parsed.ok THEN Raise("ValueError")
    ELSE StrOf(FormatItems(self, parsed.items))

\* self.formatter.vformat(val, args=(), kwargs=self)
vformat(self, val) == Formatted(self, JsonFormatterParse(val))

\* val[1:-1] of a str
Inner(val) == SubSeq(val, 2, Len(val) - 1)

\* except Exception: ret[key] = None
OrNone(r) == IF r.st = "ok" THEN r.v ELSE None

\* the raw value if its lookup succeeded, the formatted string on KeyError
RawOrFormatted(raw, str) ==
    IF raw.st = "ok" THEN OrNone(_ensure_type(raw.v))
    ELSE IF raw.exc # "KeyError" THEN None
    ELSE IF str.st = "ok" THEN str.v ELSE None

(* One key of Projector.__call__, once "{" is known to be in val: the raw  *)
(* value of the key val[1:-1] if that lookup does not raise KeyError, else *)
(* the formatted string; any exception is logged and gives None.           *)
RenderTemplated(self, val) ==
    IF val.ty # "str" THEN None
    ELSE RawOrFormatted(Projector__getitem__(self, Inner(val.s)),
                        vformat(self, val.s))

\* does the test `"{" not in val` raise (val is no container)
BraceTestRaises(val) == PyIn("{", val).st = "raise"

\* the value Projector.__call__ stores for one template value
RenderValue(self, val) ==
    IF ~PyIn("{", val).v THEN val ELSE RenderTemplated(self, val)

(* Projector.__call__(structure): structure maps output keys to template   *)
(* values.  The test `"{" not in val` is outside the try block, so a       *)
(* template value that is no container raises TypeError to the caller.     *)
Projector__call__(self, structure) ==
    IF \E key \in DOMAIN structure : BraceTestRaises(structure[key])
    THEN Raise("TypeError")
    ELSE Return([key \in DOMAIN structure |->
                    RenderValue(self, structure[key])])

(***************************************************************************)
(* Templates.  A template is a Python dict with the optional keys          *)
(* measurement, tags, fields and match: a function on a subset of these.   *)
(* A route's payload is one template or a list of candidate templates.     *)
(***************************************************************************)
One(fmt) == [kind |-> "dict", fmt |-> fmt]
Many(fmts) == [kind |-> "list", fmts |-> fmts]

(***************************************************************************)
(* The program's templates and lists, as written in the source.            *)
(***************************************************************************)
DEFAULT_FUNCTION_POINT ==
    [measurement |-> "returns",
     fields |->
        [jid |-> Str("{jid}"),
         return |-> Str("{ret_str}"),
         retcode |-> Str("{retcode}")],
     tags |->
        [fun |-> Str("{fun}"),
         minion |-> Str("{id}"),
         salt_version |-> Str("{salt_version}")]]

DEFAULT_EVENT_POINT ==
    [measurement |-> "events",
     fields |->
        [data |-> Str("{data}")],
     tags |->
        [tag |-> Str("{tag}"),
         event_type |-> Str("unknown")]]

DEFAULT_STATE_POINT ==
    [measurement |-> "returns",
     fields |->
        [jid |-> Str("{jid}"),
         retcode |-> Str("{retcode}"),
         states_failed |-> Str("{states_failed}"),
         states_total |-> Str("{states_total}"),
         states_changed |-> Str("{states_changed}"),
         states_duration |-> Str("{states_duration}")],
     tags |->
        [fun |-> Str("{fun}"),
         state |-> Str("{state_name}"),
         minion |-> Str("{id}"),
         salt_version |-> Str("{salt_version}")]]

INBUILT_EVENT_POINTS == <<
    <<"\\w+\\.\\w+",
        One([tags |->
                [tag |-> Str("{tag}"),
                 event_type |-> Str("failed_state"),
                 state_id |-> Str("{data:__id__}"),
                 sls |-> Str("{data:__sls__}")]])>>,
    <<"_salt_error",
        One([tags |->
                [tag |-> Str("{tag}"),
                 event_type |-> Str("daemon_exception"),
                 minion |-> Str("{data:id}")]])>>,
    <<"salt/auth",
        One([tags |->
                [tag |-> Str("{tag}"),
                 act |-> Str("{data:act}"),
                 event_type |-> Str("auth"),
                 minion |-> Str("{data:id}")]])>>,
    <<"salt/job/\\d+/new",
        One([tags |->
                [tag |-> Str("{tag}"),
                 event_type |-> Str("job"),
                 jid |-> Str("{data:jid}"),
                 fun |-> Str("{data:fun}"),
                 tgt |-> Str("{data:tgt}"),
                 user |-> Str("{data:user}")]])>>,
    <<"salt/job/\\d+/ret/[^/\\\\]+",
        One([tags |->
                [tag |-> Str("{tag}"),
                 event_type |-> Str("job"),
                 jid |-> Str("{data:jid}"),
                 fun |-> Str("{data:fun}"),
                 success |-> Str("{data:success}"),
                 minion |-> Str("{data:id}")]])>>,
    <<"salt/key",
        One([tags |->
                [tag |-> Str("{tag}"),
                 act |-> Str("{data:act}"),
                 event_type |-> Str("key"),
                 minion |-> Str("{data:id}"),
                 success |-> Str("{data:result}")]])>>,
    <<"key",
        One([tags |->
                [tag |-> Str("{tag}"),
                 event_type |-> Str("key")]])>>,
    <<"salt/minion/[^/\\\\]+/start",
        One([tags |->
                [tag |-> Str("{tag}"),
                 event_type |-> Str("minion_start"),
                 minion |-> Str("{data:id}")]])>>,
    <<"minion/refresh/[^/\\\\]+",
        One([tags |->
                [tag |-> Str("{tag}"),
                 event_type |-> Str("minion_data_refresh"),
                 minion |-> Str("{data:Minion data cache refresh}")]])>>,
    <<"salt/run/\\d+/args",
        Many(<<
            [match |-> <<<<"data:type", "(state|function)">>>>,
             tags |->
                [tag |-> Str("{tag}"),
                 event_type |-> Str("orch_{data:type}"),
                 tgt |-> Str("{data:tgt}"),
                 tgt_type |-> Str("{data:args:tgt_type}"),
                 ssh |-> Str("{data:args:ssh}"),
                 name |-> Str("{data:name}")]],
            [tags |->
                [tag |-> Str("{tag}"),
                 event_type |-> Str("orch_{data:type}"),
                 name |-> Str("{data:name}")]]>>)>>,
    <<"salt/run/\\d+/new",
        One([tags |->
                [tag |-> Str("{tag}"),
                 event_type |-> Str("run"),
                 jid |-> Str("{data:jid}"),
                 fun |-> Str("{data:fun}"),
                 user |-> Str("{data:user}")]])>>,
    <<"salt/run/\\d+/ret",
        One([tags |->
                [tag |-> Str("{tag}"),
                 event_type |-> Str("run"),
                 jid |-> Str("{data:jid}"),
                 fun |-> Str("{data:fun}"),
                 user |-> Str("{data:user}"),
                 success |-> Str("{data:success}")]])>>,
    <<"salt/wheel/\\d+/new",
        One([tags |->
                [tag |-> Str("{tag}"),
                 event_type |-> Str("wheel"),
                 jid |-> Str("{data:jid}"),
                 fun |-> Str("{data:fun}"),
                 user |-> Str("{data:user}")]])>>,
    <<"salt/wheel/\\d+/ret",
        One([tags |->
                [tag |-> Str("{tag}"),
                 event_type |-> Str("wheel"),
                 jid |-> Str("{data:jid}"),
                 fun |-> Str("{data:fun}"),
                 user |-> Str("{data:user}"),
                 success |-> Str("{data:success}")]])>>,
    <<"vault/cache/\\w+/clear",
        One([tags |->
                [tag |-> Str("{tag}"),
                 event_type |-> Str("vault_expire")]])>>,
    <<"vault/security/unwrapping/error",
        One([tags |->
                [tag |-> Str("{tag}"),
                 event_type |-> Str("vault_unwrap"),
                 url |-> Str("{data:url}"),
                 expected |-> Str("{data:expected}")]])>>>>

DEFAULT_EVENTS_BLOCKLIST == <<"\\d{20}", "minion/refresh/[^/\\\\]+">>

STATE_FUNCTIONS == {"state.apply", "state.highstate", "state.sls"}

DEFAULT_MASTER_POINT ==
    [measurement |-> "master",
     fields |->
        [keys_accepted |-> Str("{keys_accepted}"),
         keys_denied |-> Str("{keys_denied}"),
         keys_rejected |-> Str("{keys_rejected}"),
         keys_pending |-> Str("{keys_pending}"),
         last_startup |-> Str("{salt_startup_time}"),
         procs_cnt |-> Str("{daemon_procs_cnt}"),
         procs_mem |-> Str("{daemon_procs_mem}")],
     tags |->
        [master |-> Str("{opts[id]}"),
         salt_version |-> Str("{salt_version}")]]

DEFAULT_MINION_POINT ==
    [measurement |-> "minion",
     fields |->
        [last_startup |-> Str("{salt_startup_time}"),
         procs_cnt |-> Str("{daemon_procs_cnt}"),
         procs_mem |-> Str("{daemon_procs_mem}")],
     tags |->
        [minion |-> Str("{opts[id]}"),
         salt_version |-> Str("{salt_version}")]]


\* fmt.get(key, default) of a template
FmtGet(fmt, key, default) == IF key \in DOMAIN fmt THEN fmt[key] ELSE default

\* the template {} (default_fmt before any candidate is seen)
EmptyFmt == [k \in {} |-> 0]

(***************************************************************************)
(* Configuration: what get_returner_options reads for the influxdb2        *)
(* profile (the configured value, or the default when it is unset), and    *)
(* __opts__["id"].  event_point_fmt_tag and function_point_fmt_fun are     *)
(* ordered: sequences of <<pattern, payload>>.                             *)
(***************************************************************************)
HasPattern(table, p) == \E i \in 1..Len(table) : table[i][1] = p

(* _get_options: the configured options, with every inbuilt event point    *)
(* whose pattern is not configured appended to event_point_fmt_tag.        *)
_get_options(cfg) ==
    [cfg EXCEPT !.event_point_fmt_tag =
        cfg.event_point_fmt_tag
            \o SelectSeq(INBUILT_EVENT_POINTS,
                         LAMBDA e : ~HasPattern(cfg.event_point_fmt_tag, e[1]))]

(***************************************************************************)
(* event_return.                                                           *)
(***************************************************************************)
event_allow_ckey == "_influxdb2_event_allow"
event_block_ckey == "_influxdb2_event_block"
event_map_ckey == "_influxdb2_event_map"

\* datetime.fromisoformat accepts YYYY-MM-DDTHH:MM:SS[.ffffff]
IsIsoFormat(s) ==
    /\ Len(s) \in {19, 26}
    /\ \A i \in {5, 8} : SubSeq(s, i, i) = "-"
    /\ SubSeq(s, 11, 11) \in {"T", " "}
    /\ \A i \in {14, 17} : SubSeq(s, i, i) = ":"
    /\ \A i \in {1, 2, 3, 4, 6, 7, 9, 10, 12, 13, 15, 16, 18, 19} :
            IsDigits(SubSeq(s, i, i))
    /\ Len(s) = 26 => SubSeq(s, 20, 20) = "." /\ IsDigits(SubSeq(s, 21, 26))

UtcNow == "utcnow"

(* The timestamp of an event: datetime.fromisoformat(event["data"].pop(    *)
(* "_stamp")), utcnow on KeyError.  Returns the time and the event as the  *)
(* pop leaves it.                                                          *)
PopStamp(event) ==
    IF ~HasKey(event, "data") THEN Return([time |-> UtcNow, event |-> event])
    ELSE LET data == GetKey(event, "data") IN
         IF data.ty = "list" THEN Raise("TypeError")
         ELSE IF data.ty # "dict" THEN Raise("AttributeError")
         ELSE IF ~HasKey(data, "_stamp")
         THEN Return([time |-> UtcNow, event |-> event])
         ELSE LET stamp == GetKey(data, "_stamp") IN
              IF stamp.ty # "str" THEN Raise("TypeError")
              ELSE IF ~IsIsoFormat(stamp.s) THEN Raise("ValueError")
              ELSE Return(
                    [time |-> stamp.s,
                     event |-> Dict([i \in 1..Len(event.kv) |->
                        IF event.kv[i][1] = "data"
                        THEN <<"data",
                               Dict(SelectSeq(data.kv,
                                    LAMBDA kv : kv[1] # "_stamp"))>>
                        ELSE event.kv[i]])])

(* One pass of the inner loop: key_data is what the path gave, ptrn the    *)
(* pattern, rest the passes after it.                                      *)
MatchPair(key_data, ptrn, rest) ==
    IF key_data = Missing THEN Return("break")
    ELSE IF IsBad(ptrn) THEN Raise("re.error")
    ELSE IF key_data.ty # "str" THEN Raise("TypeError")
    ELSE IF ~fullmatch(ptrn, key_data.s).matched THEN Return("break")
    ELSE rest

RECURSIVE MatchAll(_, _)
(* The inner loop over match_fmt["match"].items(): "all" when every path   *)
(* resolves and its value fully matches the pattern, "break" at the first  *)
(* path that is missing or does not match; re.fullmatch raises TypeError   *)
(* on a value that is not a str.                                           *)
MatchAll(pairs, event) ==
    IF pairs = <<>> THEN Return("all")
    ELSE MatchPair(traverse_dict_and_list(event, Head(pairs)[1], Missing),
                   Ast(Head(pairs)[2]),
                   MatchAll(Tail(pairs), event))

(* One pass of the loop over the candidates: m is what the inner loop over *)
(* match_fmt's clause gave, rest the passes after it.                      *)
Candidate(match_fmt, m, rest) ==
    IF m.st = "raise" THEN m
    ELSE IF m.v = "all" THEN Return(match_fmt)
    ELSE rest

RECURSIVE SelectFrom(_, _, _)
(* The loop over the candidate list: a candidate without "match" becomes   *)
(* default_fmt and the loop goes on; the first candidate whose match       *)
(* clause holds is taken; when the list is exhausted, default_fmt.         *)
SelectFrom(fmts, default_fmt, event) ==
    IF fmts = <<>> THEN Return(default_fmt)
    ELSE IF "match" \notin DOMAIN Head(fmts)
    THEN SelectFrom(Tail(fmts), Head(fmts), event)
    ELSE Candidate(Head(fmts), MatchAll(Head(fmts).match, event),
                   SelectFrom(Tail(fmts), default_fmt, event))

(* A selection that starts from the first candidate as default_fmt instead *)
(* of the empty template.                                                  *)
SelectTemplateFirstAsDefault(payload, event) ==
    IF payload.kind = "list"
    THEN SelectFrom(payload.fmts, Head(payload.fmts), event)
    ELSE Return(payload.fmt)

\* the template of an event: the route's payload, or the selected candidate
SelectTemplate(payload, event) ==
    IF payload.kind = "list" THEN SelectFrom(payload.fmts, EmptyFmt, event)
    ELSE Return(payload.fmt)

\* a tag value of event_return's record: str(v) if v is not None else ""
EventTagStr(v) == IF v # None THEN PyStr(v) ELSE ""

(* The record of the returner and of the engine: the measurement, the     *)
(* rendered tags through str(), the rendered fields and the time; with the *)
(* tags as the Projector rendered them.  tags and fields are what the two  *)
(* calls of the Projector gave.                                            *)
Point(measurement, tags, fields, time) ==
    IF tags.st = "raise" THEN tags
    ELSE IF fields.st = "raise" THEN fields
    ELSE Return([rendered |-> tags.v,
                 record |->
                    [measurement |-> measurement,
                     tags |-> [k \in DOMAIN tags.v |-> PyStr(tags.v[k])],
                     fields |-> fields.v,
                     time |-> time]])

\* the record of event_return: as Point, the tags through EventTagStr
EventPointRecord(measurement, tags, fields, time) ==
    IF tags.st = "raise" THEN tags
    ELSE IF fields.st = "raise" THEN fields
    ELSE Return([rendered |-> tags.v,
                 record |->
                    [measurement |-> measurement,
                     tags |-> [k \in DOMAIN tags.v |-> EventTagStr(tags.v[k])],
                     fields |-> fields.v,
                     time |-> time]])

\* the record of an event under the template fmt that was selected for it
EventPoint(prj, fmt, time) ==
    IF fmt.st = "raise" THEN fmt
    ELSE EventPointRecord(
            FmtGet(fmt.v, "measurement", DEFAULT_EVENT_POINT.measurement),
            Projector__call__(prj,
                FmtGet(fmt.v, "tags", DEFAULT_EVENT_POINT.tags)),
            Projector__call__(prj,
                FmtGet(fmt.v, "fields", DEFAULT_EVENT_POINT.fields)),
            time)

(* the record of an event, fmt0 being the payload of its route and stamp   *)
(* its time and what the pop left of it                                    *)
RoutedPoint(mappings, fmt0, stamp) ==
    IF fmt0.st = "raise" THEN fmt0
    ELSE IF stamp.st = "raise" THEN stamp
    ELSE EventPoint(Projector(mappings, stamp.v.event),
                    SelectTemplate(fmt0.v, stamp.v.event),
                    stamp.v.time)

\* fmt = __context__[event_map_ckey][evt["tag"]]
RouteOf(map, tag) ==
    IF tag.st = "raise" THEN tag ELSE RegexDict__getitem__(map, tag.v.s)

(* The body of the loop over the filtered events: the record written for   *)
(* one event (with the tags as the Projector rendered them), or the        *)
(* exception that makes the loop log and skip the event.                   *)
EventRecord(map, mappings, event) ==
    RoutedPoint(mappings, RouteOf(map, Subscript(event, "tag")),
                PopStamp(event))

\* can the filters read the tag of every event (evt["tag"] is a str)
TagsReadable(events) ==
    \A i \in 1..Len(events) :
        /\ events[i].ty = "dict"
        /\ HasKey(events[i], "tag")
        /\ GetKey(events[i], "tag").ty = "str"

TagOf(evt) == GetKey(evt, "tag").s

\* what the write of the record rec adds to the records written
Written(src, rec) ==
    IF rec.st = "ok"
    THEN <<[src |-> src, record |-> rec.v.record, rendered |-> rec.v.rendered]>>
    ELSE <<>>

\* the indexes of the written events, in order, with their records
RECURSIVE WriteAll(_, _, _, _)
WriteAll(map, mappings, events, idxs) ==
    IF idxs = <<>> THEN <<>>
    ELSE Written(Head(idxs), EventRecord(map, mappings, events[Head(idxs)]))
            \o WriteAll(map, mappings, events, Tail(idxs))

\* the positions 1..n, in order
Upto(n) == [i \in 1..n |-> i]

\* what a call leaves: the cache, the records written, the exception raised
Done(ctx, written, aborted) ==
    [context |-> ctx, written |-> written, aborted |-> aborted]

(* event_return once the patterns are joined: allow_re and block_re are    *)
(* the joined lists and map the RegexDict of the routes, each used only    *)
(* when the cache does not hold it yet.                                    *)
FilterAndWrite(opts, mappings, ctx, events, allow_re, block_re, map) ==
    LET ctx1 == IF event_allow_ckey \in DOMAIN ctx THEN ctx
                ELSE (event_allow_ckey :> allow_re) @@ ctx
        allowed == SelectSeq(Upto(Len(events)), LAMBDA i :
                      fullmatch(ctx1[event_allow_ckey], TagOf(events[i])).matched)
        ctx2 == IF opts.events_blocklist = <<>> \/ event_block_ckey \in DOMAIN ctx1
                THEN ctx1 ELSE (event_block_ckey :> block_re) @@ ctx1
        filtered == IF opts.events_blocklist = <<>> THEN allowed
                    ELSE SelectSeq(Upto(Len(events)), LAMBDA i :
                      ~fullmatch(ctx2[event_block_ckey], TagOf(events[i])).matched)
        ctx3 == IF event_map_ckey \in DOMAIN ctx2 THEN ctx2
                ELSE (event_map_ckey :> map.v) @@ ctx2
    IN
    IF event_allow_ckey \notin DOMAIN ctx /\ IsBad(allow_re)
    THEN Done(ctx, <<>>, "re.error")
    ELSE IF ~TagsReadable(events)
    THEN Done(ctx1, <<>>,
              IF \E i \in 1..Len(events) : Subscript(events[i], "tag").st = "raise"
              THEN "KeyError" ELSE "TypeError")
    ELSE IF /\ opts.events_blocklist # <<>>
            /\ event_block_ckey \notin DOMAIN ctx1
            /\ IsBad(block_re)
    THEN Done(ctx1, <<>>, "re.error")
    ELSE IF filtered = <<>> THEN Done(ctx2, <<>>, "")
    ELSE IF event_map_ckey \notin DOMAIN ctx2 /\ map.st = "raise"
    THEN Done(ctx2, <<>>, "re.error")
    ELSE Done(ctx3, WriteAll(ctx3[event_map_ckey], mappings, events, filtered), "")

\* the routes: event_point_fmt_tag, with DEFAULT_EVENT_POINT for ".*" if unset
RouteTable(opts) ==
    IF HasPattern(opts.event_point_fmt_tag, ".*")
    THEN opts.event_point_fmt_tag
    ELSE Append(opts.event_point_fmt_tag, <<".*", One(DEFAULT_EVENT_POINT)>>)

\* event_return under the options opts that _get_options gave
WithOptions(opts, mappings, ctx, events) ==
    FilterAndWrite(opts, mappings, ctx, events,
        _join_regex(IF opts.events_allowlist # <<>>
                    THEN opts.events_allowlist ELSE <<".*">>),
        _join_regex(opts.events_blocklist),
        RegexDict(RouteTable(opts), TRUE))

(* event_return(events) under the configuration cfg and the cache ctx      *)
(* (__context__): the cache it leaves, the records it writes (each with    *)
(* the position of its event in the batch) and the exception, if any, that *)
(* the outer try logs.                                                     *)
event_return(cfg, ctx, events) ==
    WithOptions(_get_options(cfg), [master |-> NotCallable(Str(cfg.id))],
                ctx, events)

(***************************************************************************)
(* returner.                                                               *)
(***************************************************************************)
\* MatchesAny with a pattern that does not compile matching everything
MatchesAnyOrMalformed(ptrn, data) ==
    IF IsBad(ptrn) THEN TRUE
    ELSE data.ty = "str" /\ fullmatch(ptrn, data.s).matched

\* the except branch of _re_match: what log.error is called with
MatchErrors(ptrn, data) ==
    IF IsBad(ptrn) \/ data.ty # "str"
    THEN <<"Invalid regular expression">> ELSE <<>>

\* the try block of _re_match: ptrn.fullmatch(data) under the joined ptrn
MatchesAny(ptrn, data) ==
    IF IsBad(ptrn) \/ data.ty # "str" THEN FALSE
    ELSE fullmatch(ptrn, data.s).matched

(* _re_match: does data fully match one of the patterns; any exception of  *)
(* the match (a malformed pattern, data that is no str) is logged and      *)
(* answers False.                                                          *)
_re_match(patterns, data) == MatchesAny(_join_regex(patterns), data)

\* _salt_version: the version without its "+..." suffix
_salt_version(version) == Split(version, "+")[1]

\* fmt = None
NoFmt == [kind |-> "none"]

\* bool(fmt) of None, of a template and of a candidate list
HasFmt(fmt) ==
    CASE fmt.kind = "none" -> FALSE
      [] fmt.kind = "dict" -> DOMAIN fmt.fmt # {}
      [] fmt.kind = "list" -> fmt.fmts # <<>>

\* fmt or other
FmtOr(fmt, other) == IF HasFmt(fmt) THEN fmt ELSE other

\* the mappings every return gets
ReturnerMappings(cfg) ==
    [module |-> Fn("module"),
     ret_str |-> Fn("ret_str"),
     full_ret |-> Fn("full_ret"),
     salt_version |-> EnvFn(Return(Str(_salt_version(cfg.saltversion))))]

\* the mappings added for the return of a state function
StateMappings ==
    [states_total |-> Fn("states_total"),
     states_succeeded |-> Fn("states_succeeded"),
     states_succeeded_pct |-> Fn("states_succeeded_pct"),
     states_failed |-> Fn("states_failed"),
     states_failed_pct |-> Fn("states_failed_pct"),
     states_changed |-> Fn("states_changed"),
     states_changed_pct |-> Fn("states_changed_pct"),
     states_duration |-> Fn("states_duration"),
     state_name |-> Fn("state_name")]

(* The record of a return under the template fmt: measurement, the tags    *)
(* through str(), the fields; with the tags as the Projector rendered them.*)
ReturnRecord(prj, fmt) ==
    Point(FmtGet(fmt, "measurement", DEFAULT_FUNCTION_POINT.measurement),
          Projector__call__(prj,
                FmtGet(fmt, "tags", DEFAULT_FUNCTION_POINT.tags)),
          Projector__call__(prj,
                FmtGet(fmt, "fields", DEFAULT_FUNCTION_POINT.fields)),
          UtcNow)

(* RegexDict(options["function_point_fmt_fun"], compile_ptrn=False)[fun]:  *)
(* re.fullmatch compiles the joined pattern before it looks at fun, so a   *)
(* malformed pattern raises before a fun that is no str does.              *)
FunFmt(rd, fun) ==
    IF fun.ty # "str"
    THEN (IF IsBad(rd._regex) THEN Raise("re.error") ELSE Raise("TypeError"))
    ELSE RegexDict__getitem__(rd, fun.s)

\* the write of the record rec: what the call leaves
Send(ctx, rec) ==
    Done(ctx, Written(1, rec), IF rec.st = "raise" THEN rec.exc ELSE "")

(* returner past its filters: looked is what the lookup of fun in the      *)
(* function-specific templates gave.                                       *)
ReturnWith(cfg, opts, ctx, ret, fun, looked) ==
    LET fmt1 == IF looked.st = "ok" THEN looked.v ELSE NoFmt
        is_state_fun == fun.ty = "str" /\ fun.s \in STATE_FUNCTIONS
        is_state == is_state_fun /\ GetKey(ret, "return").ty = "dict"
        mappings == IF is_state
                    THEN ReturnerMappings(cfg) @@ StateMappings
                    ELSE ReturnerMappings(cfg)
        fmt2 == IF is_state
                THEN FmtOr(fmt1, One(opts.function_point_fmt_state))
                ELSE fmt1
        fmt == FmtOr(fmt2, One(opts.function_point_fmt))
    IN
    IF looked.st = "raise" /\ looked.exc # "KeyError"
    THEN Done(ctx, <<>>, looked.exc)
    ELSE IF is_state_fun /\ ~HasKey(ret, "return")
    THEN Done(ctx, <<>>, "KeyError")
    ELSE IF fmt.kind = "list" THEN Done(ctx, <<>>, "AttributeError")
    ELSE Send(ctx, ReturnRecord(Projector(mappings, ret), fmt.fmt))

\* returner under the options opts, fun being ret["fun"]
Filtered(cfg, opts, ctx, ret, fun) ==
    IF fun.st = "raise" THEN Done(ctx, <<>>, fun.exc)
    ELSE IF \/ _re_match(opts.functions_blocklist, fun.v)
            \/ /\ opts.functions_allowlist # <<>>
               /\ ~_re_match(opts.functions_allowlist, fun.v)
    THEN Done(ctx, <<>>, IF HasKey(ret, "jid") THEN "" ELSE "KeyError")
    ELSE ReturnWith(cfg, opts, ctx, ret, fun.v,
            IF opts.function_point_fmt_fun = <<>> THEN Raise("KeyError")
            ELSE FunFmt(RegexDict(opts.function_point_fmt_fun, FALSE).v, fun.v))

(* returner(ret) under the configuration cfg: the record it writes, or the *)
(* exception it raises.  The template is the function-specific one, else   *)
(* the state one for a state return, else function_point_fmt.              *)
returner(cfg, ctx, ret) ==
    Filtered(cfg, _get_options(cfg), ctx, ret, Subscript(ret, "fun"))

(***************************************************************************)
(* The engine.  opts is __opts__; env is what the daemon's environment     *)
(* answers to the functions of the mappings: version and frozen, and the   *)
(* outcome (a value or an exception) of _num_keys, _procs_cnt, _procs_mem, *)
(* the startup time lookup, the grains and the pillar lookups.             *)
(***************************************************************************)
_is_master(opts) == DictGet(opts, "__role", Str("minion")) = Str("master")

_get_master_mappings(env) ==
    [keys_accepted |-> EnvFn(env.num_keys),
     keys_denied |-> EnvFn(env.num_keys),
     keys_rejected |-> EnvFn(env.num_keys),
     keys_pending |-> EnvFn(env.num_keys),
     mom |-> Fn("mom"),
     syndic |-> Fn("syndic"),
     grains |-> EnvFn(env.grains),
     pillar |-> EnvFn(env.pillar),
     daemon_procs_cnt |-> EnvFn(env.procs_cnt),
     daemon_procs_mem |-> EnvFn(env.procs_mem),
     salt_api_procs_cnt |-> EnvFn(env.procs_cnt),
     salt_api_procs_mem |-> EnvFn(env.procs_mem),
     salt_syndic_procs_cnt |-> EnvFn(env.procs_cnt),
     salt_syndic_procs_mem |-> EnvFn(env.procs_mem),
     salt_startup_time |-> EnvFn(env.startup)]

_get_minion_mappings(env) ==
    [grains |-> EnvFn(env.grains),
     pillar |-> EnvFn(env.pillar),
     salt_startup_time |-> EnvFn(env.startup),
     daemon_procs_cnt |-> EnvFn(env.procs_cnt),
     daemon_procs_mem |-> EnvFn(env.procs_mem)]

_get_mappings(opts, env) ==
    [salt_version |-> EnvFn(Return(Str(_salt_version(env.version)))),
     onedir |-> EnvFn(Return(Bool(env.frozen)))]
        @@ (IF _is_master(opts) THEN _get_master_mappings(env)
            ELSE _get_minion_mappings(env))

\* InfluxDB2Exporter.__init__: default_fmt by role, fmt the given template
InfluxDB2Exporter(opts, output_template) ==
    LET default_fmt == IF _is_master(opts) THEN DEFAULT_MASTER_POINT
                       ELSE DEFAULT_MINION_POINT IN
    [default_fmt |-> default_fmt,
     fmt |-> FmtOr(output_template, One(default_fmt))]

\* the record written in one pass of the engine's loop
Tick(rec) == IF rec.st = "raise" THEN rec ELSE Return(Written(1, rec))

(* One pass of the loop of InfluxDB2Exporter.run: nothing (the loop        *)
(* returns) on a minion without master_uri, else the record written.       *)
RunOnce(self, opts, env) ==
    IF ~_is_master(opts) /\ ~HasKey(opts, "master_uri") THEN Return(<<>>)
    ELSE IF self.fmt.kind = "list" THEN Raise("AttributeError")
    ELSE Tick(Point(FmtGet(self.fmt.fmt, "measurement",
                           self.default_fmt.measurement),
                    Projector__call__(
                        Projector(_get_mappings(opts, env),
                                  Dict(<<<<"opts", opts>>>>)),
                        FmtGet(self.fmt.fmt, "tags", self.default_fmt.tags)),
                    Projector__call__(
                        Projector(_get_mappings(opts, env),
                                  Dict(<<<<"opts", opts>>>>)),
                        FmtGet(self.fmt.fmt, "fields", self.default_fmt.fields)),
                    UtcNow))

(***************************************************************************)
(* Task and FluxQuery: the options of a task and its query, written to and *)
(* read from Flux text.  Texts are strings; lines end with "\n".           *)
(***************************************************************************)
\* the character of s at offset i, "" outside of s
At(s, i) == IF i >= 1 /\ i <= Len(s) THEN SubSeq(s, i, i) ELSE ""

\* s.startswith(p)
StartsWith(s, p) == Len(s) >= Len(p) /\ SubSeq(s, 1, Len(p)) = p

Blank == {" ", "\n", "\t"}

RECURSIVE LStrip(_)
LStrip(s) ==
    IF At(s, 1) \in Blank THEN LStrip(SubSeq(s, 2, Len(s))) ELSE s

RECURSIVE RStrip(_)
RStrip(s) ==
    IF At(s, Len(s)) \in Blank THEN RStrip(SubSeq(s, 1, Len(s) - 1)) ELSE s

\* s.strip()
Strip(s) == RStrip(LStrip(s))

\* s.splitlines()
SplitLines(s) ==
    LET parts == Split(s, "\n") IN
    IF parts[Len(parts)] = "" THEN SubSeq(parts, 1, Len(parts) - 1) ELSE parts

\* does the line match ^import ".*"$
IsImport(line) ==
    Len(line) >= 9 /\ StartsWith(line, "import \"") /\ At(line, Len(line)) = "\""

\* FluxQuery.__init__
FluxQuery(query, imports) ==
    [query |-> Strip(query), imports |-> Strip(imports)]

\* FluxQuery.__str__
FluxQuery__str__(self) ==
    (IF self.imports # "" THEN self.imports \o "\n\n" ELSE "")
        \o self.query \o "\n"

(* FluxQuery.from_string: the import lines are taken out of the query and  *)
(* kept apart.                                                             *)
from_string(query) ==
    FluxQuery(JoinStr(SelectSeq(SplitLines(query), LAMBDA l : ~IsImport(l)),
                      "\n"),
              JoinStr(SelectSeq(SplitLines(query), IsImport), "\n"))

(* Task.__init__: a str query is parsed and written back, any other query  *)
(* is written with str(); every, cron and offset are None when unset.      *)
Task(name, query, every, cron, offset) ==
    [name |-> name,
     query |-> Str(IF query.ty = "str"
                   THEN FluxQuery__str__(from_string(query.s))
                   ELSE PyStr(query)),
     every |-> every, cron |-> cron, offset |-> offset]

\* task_opts: name and the options that are set, in this order
TaskOpts(self) ==
    SelectSeq(<<<<"name", self.name>>, <<"every", self.every>>,
                <<"cron", self.cron>>, <<"offset", self.offset>>>>,
              LAMBDA kv : kv[1] = "name" \/ kv[2] # None)

\* f"{k}: {v}", name and cron in double quotes
TaskOpt(kv) ==
    IF kv[1] \in {"name", "cron"}
    THEN kv[1] \o ": \"" \o PyStr(kv[2]) \o "\""
    ELSE kv[1] \o ": " \o PyStr(kv[2])

\* the text to_flux puts together for the parsed query
FluxText(self, query) ==
    (IF query.imports # "" THEN query.imports \o "\n\n" ELSE "")
        \o "option task = {"
        \o JoinStr([i \in 1..Len(TaskOpts(self)) |-> TaskOpt(TaskOpts(self)[i])],
                   ", ")
        \o "}" \o "\n\n" \o query.query \o "\n"

\* Task.to_flux
to_flux(self) == FluxText(self, from_string(self.query.s))

OptionHead == "option task = {"

RECURSIVE OptionsFrom(_, _)
(* re.findall(r"option task = {(.*?)}", flux)[0], searched from offset i:  *)
(* the text between the first "option task = {" and the first "}" after it *)
(* on the same line, IndexError when there is none.                        *)
OptionsFrom(flux, i) ==
    IF i + Len(OptionHead) - 1 > Len(flux) THEN Raise("IndexError")
    ELSE IF SubSeq(flux, i, i + Len(OptionHead) - 1) # OptionHead
    THEN OptionsFrom(flux, i + 1)
    ELSE LET close == FindFrom(flux, "}", i + Len(OptionHead))
             nl == FindFrom(flux, "\n", i + Len(OptionHead))
         IN IF close # 0 /\ (nl = 0 \/ close < nl)
            THEN Return(SubSeq(flux, i + Len(OptionHead), close - 1))
            ELSE OptionsFrom(flux, i + 1)

\* the flux text without its "option task = {" lines, stripped
QueryOf(flux) ==
    Strip(JoinStr(SelectSeq(SplitLines(flux),
                            LAMBDA l : ~StartsWith(l, OptionHead)), "\n"))

\* \w for ASCII text
WordChars ==
    {"a", "b", "c", "d", "e", "f", "g", "h", "i", "j", "k", "l", "m", "n", "o",
     "p", "q", "r", "s", "t", "u", "v", "w", "x", "y", "z", "A", "B", "C", "D",
     "E", "F", "G", "H", "I", "J", "K", "L", "M", "N", "O", "P", "Q", "R", "S",
     "T", "U", "V", "W", "X", "Y", "Z", "_", "0", "1", "2", "3", "4", "5", "6",
     "7", "8", "9"}

RECURSIVE WordEnd(_, _)
\* the offset behind the longest run of \w from offset i
WordEnd(s, i) == IF At(s, i) \in WordChars THEN WordEnd(s, i + 1) ELSE i

RECURSIVE ValueEnd(_, _)
\* the offset behind the longest run of [^,"] from offset i
ValueEnd(s, i) ==
    IF i <= Len(s) /\ At(s, i) \notin {",", "\""} THEN ValueEnd(s, i + 1)
    ELSE i

(* one match of (\w+): "?([^,"]+)"? at offset i: a word, ": ", an optional *)
(* quote, a value of at least one character without comma and quote, and   *)
(* an optional quote.                                                      *)
OptionAt(s, i) ==
    LET w == WordEnd(s, i)
        q == IF At(s, w + 2) = "\"" THEN w + 3 ELSE w + 2
        v == ValueEnd(s, q)
    IN IF w = i \/ At(s, w) # ":" \/ At(s, w + 1) # " " \/ v = q
       THEN [ok |-> FALSE]
       ELSE [ok |-> TRUE, key |-> SubSeq(s, i, w - 1),
             value |-> SubSeq(s, q, v - 1),
             end |-> IF At(s, v) = "\"" THEN v + 1 ELSE v]

RECURSIVE FindOptions(_, _)
\* re.findall(r'(\w+): "?([^,"]+)"?', options) from offset i
FindOptions(s, i) ==
    IF i > Len(s) THEN <<>>
    ELSE LET m == OptionAt(s, i) IN
         IF m.ok THEN <<<<m.key, m.value>>>> \o FindOptions(s, m.end)
         ELSE FindOptions(s, i + 1)

\* dict(pairs): the last value of every key
PairsDict(pairs) ==
    [k \in {pairs[i][1] : i \in 1..Len(pairs)} |->
        pairs[CHOOSE i \in 1..Len(pairs) :
                /\ pairs[i][1] = k
                /\ \A j \in (i + 1)..Len(pairs) : pairs[j][1] # k][2]]

\* parsed.get(key) as a keyword argument with default None
Keyword(parsed, key) ==
    IF key \in DOMAIN parsed THEN Str(parsed[key]) ELSE None

(* cls(query=query, **parsed): TypeError for a keyword __init__ does not   *)
(* take, for a second query and for a missing name.                        *)
TaskFrom(query, parsed) ==
    IF ~(DOMAIN parsed \subseteq {"name", "every", "cron", "offset"})
       \/ "name" \notin DOMAIN parsed
    THEN Raise("TypeError")
    ELSE Return(Task(Str(parsed["name"]), Str(query),
                     Keyword(parsed, "every"), Keyword(parsed, "cron"),
                     Keyword(parsed, "offset")))

\* the rest of from_flux after the search for the option block
FromOptions(flux, block) ==
    IF block.st = "raise" THEN Raise("CommandExecutionError")
    ELSE TaskFrom(QueryOf(flux), PairsDict(FindOptions(block.v, 1)))

(* Task.from_flux: CommandExecutionError("Could not parse task options")   *)
(* when the text has no option block, else a Task from the block's pairs.  *)
from_flux(flux) == FromOptions(flux, OptionsFrom(flux, 1))


(***************************************************************************)
(* The execution module, src/_modules/influxdb2.py.  A task of the server  *)
(* is the object of the client library: name, flux, every, cron, offset,   *)
(* description and status ("active" or "inactive").                        *)
(***************************************************************************)

\* NOT_SET, the default of the parameters of the update functions
NOT_SET == Str("__unset__")

\* setattr(obj, attr, var) when var != NOT_SET
SetGiven(obj, attr, var) ==
    IF var # NOT_SET THEN [obj EXCEPT ![attr] = var] ELSE obj

(* the loop of update_task over the helper parsed from the task's flux:    *)
(* rename is the helper's name, query is kept as given                     *)
HelperWith(helper, args) ==
    SetGiven(SetGiven(SetGiven(SetGiven(SetGiven(helper,
        "name", args.rename), "query", args.query), "every", args.every),
        "cron", args.cron), "offset", args.offset)

\* the same loop over the task object: every attribute but query
ExistingWith(existing, args) ==
    SetGiven(SetGiven(SetGiven(SetGiven(existing,
        "name", args.rename), "every", args.every),
        "cron", args.cron), "offset", args.offset)

\* the status update_task writes: skipped for None only
StatusWith(existing, active) ==
    IF active # None
    THEN [existing EXCEPT !.status = IF Truthy(active) THEN "active"
                                     ELSE "inactive"]
    ELSE existing

\* the task update_task submits, given the helper parsed from the flux
Submitted(existing, helper, args) ==
    StatusWith(
        SetGiven([ExistingWith(existing, args) EXCEPT
                    !.flux = to_flux(HelperWith(helper, args))],
                 "description", args.description),
        args.active)

(* update_task on the task the server holds under the name: the error of   *)
(* Task.from_flux, else the task handed to tasks_api().update_task         *)
update_task(existing, args) ==
    IF from_flux(existing.flux).st = "raise" THEN from_flux(existing.flux)
    ELSE Return(Submitted(existing, from_flux(existing.flux).v, args))

(***************************************************************************)
(* The server as the functions below see it: at most one bucket and one    *)
(* task, None when the server holds none.  A bucket is the dict to_dict()  *)
(* gives: name, description and retention_rules.                           *)
(***************************************************************************)
UnitSeconds(unit) ==
    CASE unit = "s" -> 1
      [] unit = "m" -> 60
      [] unit = "h" -> 3600
      [] unit = "d" -> 86400

\* does the text match ^\d+[smhd]$, a whole count and a unit
IsTimeString(s) ==
    /\ Len(s) > 1
    /\ IsDigits(SubSeq(s, 1, Len(s) - 1))
    /\ SubSeq(s, Len(s), Len(s)) \in {"s", "m", "h", "d"}

\* the number of seconds of an int or of a float of whole seconds
Seconds(v) ==
    IF v.ty = "int" THEN v.n ELSE ParseInt(SubSeq(v.r, 1, Len(v.r) - 2))

(* timestring_map for None, numbers and str values: a number as int(val),  *)
(* the text of an int as the int, a time string of a whole count as a      *)
(* float of seconds, any other text as SaltInvocationError.                *)
timestring_map(val) ==
    IF val.ty \in {"none", "int"} THEN Return(val)
    ELSE IF val.ty = "float" THEN Return(PyInt(Seconds(val)))
    ELSE IF IsIntText(val.s) THEN Return(PyInt(ParseInt(val.s)))
    ELSE IF ~IsTimeString(val.s) THEN Raise("SaltInvocationError")
    ELSE Return(Float(PyRepr(PyInt(
            DigitsToInt(SubSeq(val.s, 1, Len(val.s) - 1))
                * UnitSeconds(SubSeq(val.s, Len(val.s), Len(val.s)))))
            \o ".0"))

\* BucketRetentionRules(type="expire", every_seconds=expire) as stored
ExpireRule(expire) ==
    [type |-> "expire", every_seconds |-> PyInt(Seconds(expire))]

\* what a function of the module leaves: its outcome and the server after
Left(out, srv) == [out |-> out, srv |-> srv]

\* fetch_bucket: the bucket of that name as a dict, or None
fetch_bucket(srv, name) ==
    IF srv.bucket # None /\ srv.bucket.name = name THEN srv.bucket ELSE None

(* create_bucket: the bucket is created from name, retention_rules and     *)
(* org; the description is not handed to buckets_api().create_bucket       *)
create_bucket(srv, name, expire, description) ==
    IF fetch_bucket(srv, name) # None
    THEN Left(Raise("CommandExecutionError"), srv)
    ELSE IF timestring_map(expire).st = "raise"
    THEN Left(timestring_map(expire), srv)
    ELSE Left(Return(None),
              [srv EXCEPT !.bucket =
                [name |-> name, description |-> None,
                 retention_rules |-> <<ExpireRule(timestring_map(expire).v)>>]])

\* the bucket update_bucket submits
UpdatedBucket(existing, expire, description) ==
    [existing EXCEPT
        !.retention_rules =
            IF expire # NOT_SET THEN <<ExpireRule(timestring_map(expire).v)>>
            ELSE @,
        !.description = IF description # NOT_SET THEN description ELSE @]

\* update_bucket
update_bucket(srv, name, expire, description) ==
    IF expire = NOT_SET /\ description = NOT_SET
    THEN Left(Raise("SaltInvocationError"), srv)
    ELSE IF fetch_bucket(srv, name) = None
    THEN Left(Raise("CommandExecutionError"), srv)
    ELSE IF expire # NOT_SET /\ timestring_map(expire).st = "raise"
    THEN Left(timestring_map(expire), srv)
    ELSE Left(Return(None),
              [srv EXCEPT !.bucket =
                UpdatedBucket(srv.bucket, expire, description)])

\* delete_bucket
delete_bucket(srv, name) ==
    IF fetch_bucket(srv, name) = None
    THEN Left(Raise("CommandExecutionError"), srv)
    ELSE Left(Return(Bool(TRUE)), [srv EXCEPT !.bucket = None])

\* fetch_task: the task of that name as a dict, or None
fetch_task(srv, name) ==
    IF srv.task # None /\ srv.task.name = Str(name) THEN srv.task ELSE None

\* create_task: the flux text is written from the arguments
create_task(srv, name, args) ==
    IF fetch_task(srv, name) # None
    THEN Left(Raise("CommandExecutionError"), srv)
    ELSE Left(Return(None),
              [srv EXCEPT !.task =
                [name |-> Str(name),
                 flux |-> to_flux(Task(Str(name), args.query, args.every,
                                       args.cron, args.offset)),
                 every |-> args.every, cron |-> args.cron,
                 offset |-> args.offset, description |-> args.description,
                 status |-> IF Truthy(args.active) THEN "active"
                            ELSE "inactive"]])

\* update_task with the server: the submitted task is the server's task
UpdateOf(srv, name, submitted) ==
    IF submitted.st = "raise" THEN Left(submitted, srv)
    ELSE Left(Return(None), [srv EXCEPT !.task = submitted.v])

\* delete_task
delete_task(srv, name) ==
    IF fetch_task(srv, name) = None
    THEN Left(Raise("CommandExecutionError"), srv)
    ELSE Left(Return(Bool(TRUE)), [srv EXCEPT !.task = None])

(***************************************************************************)
(* The state module, src/_states/influxdb2.py.  A run leaves the return    *)
(* dict (or the exception that escaped), the server, and the create,       *)
(* update and delete functions it called.                                  *)
(***************************************************************************)
StateRet(name, res, changes, comment) ==
    [name |-> name, result |-> res, changes |-> changes, comment |-> comment]

Ran(out, srv, calls) == [out |-> out, srv |-> srv, calls |-> calls]

\* an entry of the changes dict
Change(key, old, new) == [key |-> key, old |-> old, new |-> new]

\* except (CommandExecutionError, SaltInvocationError)
Caught == {"CommandExecutionError", "SaltInvocationError"}

\* the except clause of the four functions, or the exception going on
Excepted(name, exc, srv, calls) ==
    IF exc \in Caught
    THEN Ran(Return(StateRet(name, Bool(FALSE), <<>>, exc)), srv, calls)
    ELSE Ran(Raise(exc), srv, calls)

(* the tail the four functions share: no changes, test mode, or the call   *)
(* of the module function fn, left being what that call leaves             *)
Apply(srv, test, name, changes, already, verb, fn, left) ==
    IF changes = <<>>
    THEN Ran(Return(StateRet(name, Bool(TRUE), <<>>, already)), srv, <<>>)
    ELSE IF test
    THEN Ran(Return(StateRet(name, None, changes, "Would have " \o verb)),
             srv, <<>>)
    ELSE IF left.out.st = "raise"
    THEN Excepted(name, left.out.exc, left.srv, <<fn>>)
    ELSE Ran(Return(StateRet(name, Bool(TRUE), changes,
                             "Successfully " \o verb)),
             left.srv, <<fn>>)

\* every_seconds != expire, int against int, float or None
SameSeconds(rule, expire) ==
    expire.ty \in {"int", "float"} /\ rule.every_seconds.n = Seconds(expire)

\* the changes bucket_present finds for the fetched bucket
BucketChanges(existing, name, expire, description) ==
    IF existing = None THEN <<Change("created", None, Str(name))>>
    ELSE (IF existing.description # description
             /\ (Truthy(description) \/ existing.description # None)
          THEN <<Change("description", existing.description, description)>>
          ELSE <<>>)
         \o
         (IF \/ Len(existing.retention_rules) # 1
             \/ existing.retention_rules[1].type # "expire"
             \/ ~SameSeconds(existing.retention_rules[1], expire)
          THEN <<Change("retention_rules", existing.retention_rules, expire)>>
          ELSE <<>>)

\* bucket_present after timestring_map(expire) has returned
BucketPresentWith(srv, test, name, expire, description, existing) ==
    Apply(srv, test, name,
          BucketChanges(existing, name, expire, description),
          "The bucket is already in the correct state",
          IF existing = None THEN "created the bucket"
          ELSE "updated the bucket",
          IF existing = None THEN "create_bucket" ELSE "update_bucket",
          IF existing = None
          THEN create_bucket(srv, name, expire, description)
          ELSE update_bucket(srv, name, expire, description))

\* bucket_present(name, expire, description)
bucket_present(srv, test, name, expire, description) ==
    IF timestring_map(expire).st = "raise"
    THEN Excepted(name, timestring_map(expire).exc, srv, <<>>)
    ELSE BucketPresentWith(srv, test, name, timestring_map(expire).v,
                           description, fetch_bucket(srv, name))

\* bucket_absent(name)
bucket_absent(srv, test, name) ==
    Apply(srv, test, name,
          IF fetch_bucket(srv, name) = None THEN <<>>
          ELSE <<Change("deleted", None, Str(name))>>,
          "The bucket is already absent", "deleted the bucket",
          "delete_bucket", delete_bucket(srv, name))

\* existing.get(param) != var, with the exemption of the description
ParamChange(existing, param, var) ==
    IF existing[param] # var
       /\ (param # "description" \/ Truthy(var) \/ existing[param] # None)
    THEN <<Change(param, existing[param], var)>>
    ELSE <<>>

\* (existing["status"] == "active") is not active, for a bool active
ActiveChange(existing, active) ==
    IF (existing.status = "active") # Truthy(active)
    THEN <<Change("active", None, active)>>
    ELSE <<>>

(* the changes task_present finds for a task whose flux was parsed into    *)
(* current; the active entry is written in the first round of the loop     *)
TaskChanges(existing, current, args) ==
    (IF current.query.s # FluxQuery__str__(from_string(args.query.s))
     THEN <<Change("query", current.query,
                   Str(FluxQuery__str__(from_string(args.query.s))))>>
     ELSE <<>>)
    \o ParamChange(existing, "every", args.every)
    \o ActiveChange(existing, args.active)
    \o ParamChange(existing, "cron", args.cron)
    \o ParamChange(existing, "offset", args.offset)
    \o ParamChange(existing, "description", args.description)

\* the arguments task_present hands to update_task: no rename
UpdateArgsOf(args) ==
    [rename |-> NOT_SET, query |-> args.query, every |-> args.every,
     cron |-> args.cron, offset |-> args.offset,
     description |-> args.description, active |-> args.active]

\* task_present for a task the server holds, current being its parsed flux
TaskPresentWith(srv, test, name, args, existing, current) ==
    IF current.st = "raise" THEN Excepted(name, current.exc, srv, <<>>)
    ELSE Apply(srv, test, name, TaskChanges(existing, current.v, args),
               "The task is already in the correct state",
               "updated the task", "update_task",
               UpdateOf(srv, name, update_task(existing, UpdateArgsOf(args))))

\* task_present(name, query, every, cron, offset, description, active)
task_present(srv, test, name, args) ==
    IF fetch_task(srv, name) = None
    THEN Apply(srv, test, name, <<Change("created", None, Str(name))>>,
               "The task is already in the correct state",
               "created the task", "create_task",
               create_task(srv, name, args))
    ELSE TaskPresentWith(srv, test, name, args, fetch_task(srv, name),
                         from_flux(fetch_task(srv, name).flux))

\* task_absent(name)
task_absent(srv, test, name) ==
    Apply(srv, test, name,
          IF fetch_task(srv, name) = None THEN <<>>
          ELSE <<Change("deleted", None, Str(name))>>,
          "The task is already absent", "deleted the task",
          "delete_task", delete_task(srv, name))
(***************************************************************************)
(* The state: the configuration in force, the cache __context__, the call  *)
(* being made and what it left.                                            *)
(***************************************************************************)
Pending == [st |-> "pending"]
NoOptions == [none |-> TRUE]
NoContext == [k \in {} |-> 0]

\* the influxdb2 profile with nothing configured
DefaultConfig ==
    [id |-> "master1",
     saltversion |-> "3006.1+12.gabc",
     event_point_fmt |-> DEFAULT_EVENT_POINT,
     event_point_fmt_tag |-> <<>>,
     events_allowlist |-> <<>>,
     events_blocklist |-> DEFAULT_EVENTS_BLOCKLIST,
     function_point_fmt |-> DEFAULT_FUNCTION_POINT,
     function_point_fmt_fun |-> <<>>,
     function_point_fmt_state |-> DEFAULT_STATE_POINT,
     functions_allowlist |-> <<>>,
     functions_blocklist |-> <<>>]

(* event_return(events): the whole handler, the filters, the cache and the *)
(* loop over the events.                                                   *)
EventReturn ==
    /\ call.op = "event_return"
    /\ result = Pending
    /\ \E r \in {event_return(options, context, call.events)} :
       /\ context' = r.context
       /\ result' = [written |-> r.written, aborted |-> r.aborted]
    /\ UNCHANGED <<options, call>>

(***************************************************************************)
(* Route lookup on its own: an ordered route table and a key are drawn,    *)
(* the table is built into a RegexDict and the key is looked up.           *)
(***************************************************************************)
MaxRoutes == 3

RoutePatterns == {"a.*", ".*", "ab", "b", "(a|b)c"}
RouteKeys == {"abc", "ab", "b", "a", "ac", "bc", "", "xab"}

\* the payload the model's route tables attach to a pattern
PayloadOf(p) == One([measurement |-> p])

RouteTables ==
    {[i \in 1..Len(ps) |-> <<ps[i], PayloadOf(ps[i])>>] :
        ps \in {q \in UNION {[1..n -> RoutePatterns] : n \in 1..MaxRoutes} :
                    \A i, j \in 1..Len(q) : i # j => q[i] # q[j]}}

InitRouter ==
    /\ options = NoOptions
    /\ context = NoContext
    /\ call \in {[op |-> "lookup", mappings |-> m, key |-> k,
                  compile_ptrn |-> c] :
                    m \in RouteTables, k \in RouteKeys, c \in BOOLEAN}
    /\ result = Pending

Lookup ==
    /\ call.op = "lookup"
    /\ result = Pending
    /\ \E rd \in {RegexDict(call.mappings, call.compile_ptrn)} :
       result' = IF rd.st = "raise" THEN rd
                 ELSE RegexDict__getitem__(rd.v, call.key)
    /\ UNCHANGED <<options, context, call>>

NextRouter == Lookup

SpecRouter == InitRouter /\ [][NextRouter]_vars

\* the patterns of a table that match the whole key, by position
FullMatches(mappings, key) ==
    {i \in 1..Len(mappings) : fullmatch(Ast(mappings[i][1]), key).matched}

Min(S) == CHOOSE x \in S : \A y \in S : x <= y

(* C1: lookup returns the payload of the earliest-inserted pattern that    *)
(* matches the entire key, and raises KeyError exactly when no pattern     *)
(* matches the entire key.                                                 *)
C1_FirstFullMatchWins ==
    (call.op = "lookup" /\ result # Pending) =>
        LET hits == FullMatches(call.mappings, call.key) IN
        IF hits = {} THEN result = Raise("KeyError")
        ELSE result = Return(call.mappings[Min(hits)][2])

(***************************************************************************)
(* Event batches under the allow and block lists: a configuration is       *)
(* drawn, then batch after batch is handed to event_return, the cache      *)
(* staying between the calls.                                              *)
(***************************************************************************)
MaxBatch == 2

EventTags == {"my/custom/event", "my/other/event", "salt/auth",
              "12345678901234567890"}

EventOf(tag) ==
    Dict(<<<<"tag", Str(tag)>>,
           <<"data", Dict(<<<<"id", Str("db1")>>,
                            <<"_stamp", Str("2024-01-01T00:00:00.000000")>>>>)>>>>)

EventBatches ==
    UNION {[1..n -> {EventOf(t) : t \in EventTags}] : n \in 0..MaxBatch}

EventConfigs ==
    {[DefaultConfig EXCEPT
        !.events_allowlist = a,
        !.events_blocklist = b,
        !.event_point_fmt_tag =
            <<<<"my/custom/event",
                One([tags |-> [minion |-> Str("{data:id}"),
                               tag |-> Str("{tag}")]])>>>>] :
        a \in {<<>>, <<"my/.*">>},
        b \in {<<>>, DEFAULT_EVENTS_BLOCKLIST, <<"my/other/event">>}}

InitEvents ==
    /\ options \in EventConfigs
    /\ context = NoContext
    /\ call \in {[op |-> "event_return", events |-> b] : b \in EventBatches}
    /\ result = Pending

\* the event bus hands over the next batch
NextBatch ==
    /\ call.op = "event_return"
    /\ result # Pending
    /\ call' \in {[op |-> "event_return", events |-> b] : b \in EventBatches}
    /\ result' = Pending
    /\ UNCHANGED <<options, context>>

NextEvents == EventReturn \/ NextBatch

SpecEvents == InitEvents /\ [][NextEvents]_vars

\* does the tag pass the configured lists, pattern by pattern
PassesLists(cfg, tag) ==
    /\ cfg.events_allowlist # <<>> =>
            \E i \in 1..Len(cfg.events_allowlist) :
                fullmatch(Ast(cfg.events_allowlist[i]), tag).matched
    /\ \A i \in 1..Len(cfg.events_blocklist) :
            ~fullmatch(Ast(cfg.events_blocklist[i]), tag).matched

(* C2: an event is recorded only if its tag fully matches an allowlist     *)
(* pattern (when the allowlist is not empty) and fully matches no          *)
(* blocklist pattern.                                                      *)
C2_RecordedOnlyIfListsPass ==
    (call.op = "event_return" /\ result # Pending) =>
        \A i \in 1..Len(result.written) :
            PassesLists(options, TagOf(call.events[result.written[i].src]))

(***************************************************************************)
(* Selection among the candidates of a route: the route of my/other/event  *)
(* carries a candidate list, and one event with that tag is returned.      *)
(***************************************************************************)
MaxCandidates == 3

CandidatePool ==
    {[measurement |-> "m_cx", match |-> <<<<"type", "x">>>>],
     [measurement |-> "m_cn", match |-> <<<<"type", "x">>, <<"data:n", "\\d">>>>],
     [measurement |-> "m_cd", match |-> <<<<"data:n", "\\d">>>>],
     [measurement |-> "m_d1"],
     [measurement |-> "m_d2"]}

CandidateLists ==
    {l \in UNION {[1..n -> CandidatePool] : n \in 1..MaxCandidates} :
        \A i, j \in 1..Len(l) : i # j => l[i] # l[j]}

SelectConfigs ==
    {[DefaultConfig EXCEPT
        !.event_point_fmt_tag = <<<<"my/other/event", Many(l)>>>>] :
        l \in CandidateLists}

Field(key, vals) == {<<>>} \cup {<<<<key, v>>>> : v \in vals}

SelectEvents ==
    {Dict(<<<<"tag", Str("my/other/event")>>>> \o type
            \o <<<<"data", Dict(n)>>>>) :
        type \in Field("type", {Str("x"), Str("y"), PyInt(7)}),
        n \in Field("n", {Str("5"), Str("ab"), PyInt(5)})}

InitSelect ==
    /\ options \in SelectConfigs
    /\ context = NoContext
    /\ call \in {[op |-> "event_return", events |-> <<e>>] : e \in SelectEvents}
    /\ result = Pending

NextSelect == EventReturn

SpecSelect == InitSelect /\ [][NextSelect]_vars

\* a call of event_return on one event whose route is a candidate list is over
SelectDone ==
    /\ call.op = "event_return"
    /\ result # Pending
    /\ Len(call.events) = 1
    /\ options.event_point_fmt_tag # <<>>
    /\ options.event_point_fmt_tag[1][2].kind = "list"

Candidates == options.event_point_fmt_tag[1][2].fmts
TheEvent == call.events[1]

Predicated(l) == {i \in 1..Len(l) : "match" \in DOMAIN l[i]}
MatchLess(l) == {i \in 1..Len(l) : "match" \notin DOMAIN l[i]}

\* the value a predicate path resolves to
Resolved(pair, e) == traverse_dict_and_list(e, pair[1], Missing)

\* the path resolves and the string form of the value fully matches
PredicateHolds(pair, e) ==
    /\ Resolved(pair, e) # Missing
    /\ fullmatch(Ast(pair[2]), PyStr(Resolved(pair, e))).matched

Holds(c, e) == \A k \in 1..Len(c.match) : PredicateHolds(c.match[k], e)

Holding(l, e) == {i \in Predicated(l) : Holds(l[i], e)}

\* every predicate path of the list is missing or resolves to a str
TextValued(l, e) ==
    \A i \in Predicated(l) : \A k \in 1..Len(l[i].match) :
        Resolved(l[i].match[k], e) = Missing
            \/ Resolved(l[i].match[k], e).ty = "str"

(* the candidate the written record was built from (by its measurement),   *)
(* 0 when nothing was written or the record is from no candidate           *)
Selected ==
    IF result.written = <<>> THEN 0
    ELSE LET from == {i \in 1..Len(Candidates) :
                        Candidates[i].measurement
                            = result.written[1].record.measurement} IN
         IF from = {} THEN 0 ELSE CHOOSE i \in from : TRUE

(* C3: the predicated candidates are evaluated in list order and the first *)
(* whose predicates all resolve and fully match is selected; when none     *)
(* does, the candidate without a match clause is.                          *)
C3_FirstHoldingSelected ==
    SelectDone =>
        /\ Holding(Candidates, TheEvent) # {} =>
                Selected = Min(Holding(Candidates, TheEvent))
        /\ (Holding(Candidates, TheEvent) = {}
                /\ Cardinality(MatchLess(Candidates)) = 1) =>
                Selected \in MatchLess(Candidates)

\* C3 where every predicate value is a str or missing
C3_OnTextValues ==
    (SelectDone /\ TextValued(Candidates, TheEvent)) =>
        /\ Holding(Candidates, TheEvent) # {} =>
                Selected = Min(Holding(Candidates, TheEvent))
        /\ (Holding(Candidates, TheEvent) = {}
                /\ Cardinality(MatchLess(Candidates)) = 1) =>
                Selected \in MatchLess(Candidates)

(* C4: the one candidate without a match clause is evaluated last: a       *)
(* predicated candidate that holds is selected even when it comes after    *)
(* the default, and the default is selected only when no predicated        *)
(* candidate holds.                                                        *)
C4_DefaultEvaluatedLast ==
    (SelectDone /\ Cardinality(MatchLess(Candidates)) = 1) =>
        LET d == CHOOSE i \in MatchLess(Candidates) : TRUE IN
        /\ (\E i \in Holding(Candidates, TheEvent) : i > d) =>
                Selected \in Predicated(Candidates)
        /\ Selected = d => Holding(Candidates, TheEvent) = {}

\* C4 where every predicate value is a str or missing
C4_OnTextValues ==
    (SelectDone /\ TextValued(Candidates, TheEvent)
        /\ Cardinality(MatchLess(Candidates)) = 1) =>
        LET d == CHOOSE i \in MatchLess(Candidates) : TRUE IN
        /\ (\E i \in Holding(Candidates, TheEvent) : i > d) =>
                Selected \in Predicated(Candidates)
        /\ Selected = d => Holding(Candidates, TheEvent) = {}

(* C5: when a predicate path resolves to a value that is not a str, the    *)
(* selection still completes on the value's string form and the event      *)
(* still becomes a point.                                                  *)
C5_NonTextValuesStillSelect ==
    (SelectDone /\ ~TextValued(Candidates, TheEvent)) =>
        /\ Len(result.written) = 1
        /\ Holding(Candidates, TheEvent) # {} =>
                Selected = Min(Holding(Candidates, TheEvent))

\* the predicate the code stops at: a missing path or a str that does not match
FailsAt(pair, e) ==
    \/ Resolved(pair, e) = Missing
    \/ /\ Resolved(pair, e).ty = "str"
       /\ ~fullmatch(Ast(pair[2]), Resolved(pair, e).s).matched

\* a str that matches
TextHolds(pair, e) ==
    /\ Resolved(pair, e) # Missing
    /\ Resolved(pair, e).ty = "str"
    /\ fullmatch(Ast(pair[2]), Resolved(pair, e).s).matched

(* the candidate is rejected: one of its predicates is missing or does not *)
(* match, the ones before it matching                                      *)
Rejected(c, e) ==
    \E k \in 1..Len(c.match) :
        /\ FailsAt(c.match[k], e)
        /\ \A j \in 1..(k - 1) : TextHolds(c.match[j], e)

\* the point of the event built from DEFAULT_EVENT_POINT alone
DefaultPointWritten ==
    /\ Len(result.written) = 1
    /\ result.aborted = ""
    /\ LET record == result.written[1].record IN
       /\ record.measurement = "events"
       /\ record.tags = [tag |-> TagOf(TheEvent), event_type |-> "unknown"]
       /\ DOMAIN record.fields = {"data"}

C7_AmbiguousDefaultRejected ==
    (SelectDone /\ Cardinality(MatchLess(Candidates)) > 1) =>
        /\ result.written = <<>>
        /\ result.aborted # ""

(***************************************************************************)
(* Rendering on its own: a Projector over a return and a template of up to *)
(* MaxKeys keys is drawn and rendered.                                     *)
(***************************************************************************)
MaxKeys == 2

KeyNames == <<"a", "b", "c", "d">>

TemplateValues ==
    {Str("static"), Str("{jid}"), Str("{return:value}"), Str("{return}"),
     Str("{module}"), Str("{nope}"), Str("{master}"), Str("job-{jid}-end"),
     Str("x{a}y"), Str("{a}"), Str("{jid)"), PyInt(5), None,
     List(<<Str("a"), PyInt(1)>>)}

Structures ==
    UNION {[{KeyNames[i] : i \in 1..n} -> TemplateValues] : n \in 1..MaxKeys}

RenderData ==
    {Dict(<<<<"fun", Str("test.ping")>>, <<"jid", Str("2024")>>,
            <<"id", Str("m1")>>, <<"retcode", PyInt(0)>>,
            <<"return", Dict(<<<<"value", PyInt(5)>>,
                               <<"items", List(<<PyInt(1), Str("a")>>)>>>>)>>>>),
     Dict(<<<<"jid", PyInt(7)>>, <<"a", PyInt(1)>>, <<"{a}", PyInt(3)>>>>)}

RenderMappings ==
    ReturnerMappings(DefaultConfig) @@ [master |-> NotCallable(Str("master1"))]

InitProjector ==
    /\ options = NoOptions
    /\ context = NoContext
    /\ call \in {[op |-> "render", data |-> d, structure |-> s] :
                    d \in RenderData, s \in Structures}
    /\ result = Pending

\* prj(structure)
Render ==
    /\ call.op = "render"
    /\ result = Pending
    /\ result' = Projector__call__(Projector(RenderMappings, call.data),
                                   call.structure)
    /\ UNCHANGED <<options, context, call>>

NextProjector == Render

SpecProjector == InitProjector /\ [][NextProjector]_vars

RenderDone == call.op = "render" /\ result # Pending

\* the references of the template language: an accessor or a colon path
Refs == {"jid", "return:value", "return", "module", "a", "retcode", "id"}
Texts == {"", "job-", "-end", "x", "y"}

\* accessor-or-path lookup of a reference
RefValue(ref) == Projector__getitem__(Projector(RenderMappings, call.data), ref)

\* the string a value takes inside a format string
TextOf(v) == IF IsScalar(v) THEN PyStr(v) ELSE JsonText(v)

(* C8: a template value that is exactly one reference gives the resolved   *)
(* value, with its type when that is int, float, str or bool and as JSON   *)
(* text otherwise; a reference with text around it gives a string, the     *)
(* value in its string form; a value without brace is given back as it is. *)
C8_RawCompositeLiteral ==
    (RenderDone /\ result.st = "ok") =>
        \A key \in DOMAIN call.structure :
            LET val == call.structure[key] IN
            val.ty = "str" =>
                /\ ~Contains(val.s, "{") => result.v[key] = val
                /\ \A ref \in Refs : \A pre, post \in Texts :
                        (/\ val.s = pre \o "{" \o ref \o "}" \o post
                         /\ RefValue(ref).st = "ok") =>
                            result.v[key] =
                                IF pre = "" /\ post = ""
                                THEN (IF IsScalar(RefValue(ref).v)
                                      THEN RefValue(ref).v
                                      ELSE Str(JsonText(RefValue(ref).v)))
                                ELSE Str(pre \o TextOf(RefValue(ref).v) \o post)

\* C8 on data whose keys hold no brace
C8_OnPlainKeys ==
    (RenderDone /\ result.st = "ok" /\ ~HasKey(call.data, "{a}")) =>
        \A key \in DOMAIN call.structure :
            LET val == call.structure[key] IN
            val.ty = "str" =>
                /\ ~Contains(val.s, "{") => result.v[key] = val
                /\ \A ref \in Refs : \A pre, post \in Texts :
                        (/\ val.s = pre \o "{" \o ref \o "}" \o post
                         /\ RefValue(ref).st = "ok") =>
                            result.v[key] =
                                IF pre = "" /\ post = ""
                                THEN (IF IsScalar(RefValue(ref).v)
                                      THEN RefValue(ref).v
                                      ELSE Str(JsonText(RefValue(ref).v)))
                                ELSE Str(pre \o TextOf(RefValue(ref).v) \o post)

\* a template value that is no str, or no well-formed format string
Malformed(val) == val.ty # "str" \/ ~JsonFormatterParse(val.s).ok

(* C9: a failure on one template value sets that key to null, every other  *)
(* key is still rendered, and the call never raises, a template value that *)
(* is no string or is malformed included.                                  *)
C9_FailureIsPerKey ==
    RenderDone =>
        /\ result.st = "ok"
        /\ DOMAIN result.v = DOMAIN call.structure
        /\ \A key \in DOMAIN call.structure :
                Malformed(call.structure[key]) => result.v[key] = None

\* an int, float, str or bool, or null
Flat(v) == v = None \/ IsScalar(v)

(* C11: every value of the mapping that Projector.__call__ returns is an   *)
(* int, a float, a string, a bool or null, never a list or a mapping,      *)
(* whichever of the literal, raw and composite paths produced it.          *)
C11_ValuesAreFlat ==
    (RenderDone /\ result.st = "ok") =>
        \A key \in DOMAIN call.structure : Flat(result.v[key])

\* C11 on structures whose template values are all strings
C11_OnTextTemplates ==
    (/\ RenderDone /\ result.st = "ok"
     /\ \A key \in DOMAIN call.structure : call.structure[key].ty = "str") =>
        \A key \in DOMAIN call.structure : Flat(result.v[key])

(***************************************************************************)
(* The three producers of points: a return handed to returner, a tick of   *)
(* the engine's loop, an event handed to event_return.                     *)
(***************************************************************************)
MaxTicks == 2

Returns ==
    {Dict(<<<<"fun", Str("test.ping")>>, <<"jid", Str("2024")>>,
            <<"id", Str("m1")>>, <<"retcode", PyInt(0)>>,
            <<"return", Bool(TRUE)>>, <<"fun_args", List(<<>>)>>>>),
     Dict(<<<<"fun", Str("state.apply")>>, <<"jid", Str("2025")>>,
            <<"id", Str("m1")>>, <<"retcode", PyInt(2)>>,
            <<"user", Str("root")>>,
            <<"return",
              Dict(<<<<"s1", Dict(<<<<"result", Bool(TRUE)>>,
                                    <<"changes", Dict(<<>>)>>,
                                    <<"duration", PyInt(3)>>>>)>>,
                     <<"s2", Dict(<<<<"result", Bool(FALSE)>>,
                                    <<"changes", Dict(<<<<"x", PyInt(1)>>>>)>>,
                                    <<"duration", PyInt(4)>>>>)>>>>)>>,
            <<"fun_args", List(<<Str("web")>>)>>>>),
     Dict(<<<<"fun", Str("state.highstate")>>, <<"jid", Str("2026")>>,
            <<"id", Str("m1")>>, <<"retcode", PyInt(1)>>,
            <<"return", List(<<Str("Rendering failed")>>)>>,
            <<"fun_args", List(<<>>)>>>>)}

ReturnConfigs ==
    {[DefaultConfig EXCEPT
        !.functions_allowlist = a,
        !.functions_blocklist = b,
        !.function_point_fmt = f,
        !.function_point_fmt_fun = t] :
        a \in {<<>>, <<"state\\..*">>},
        b \in {<<>>, <<"test\\.ping">>},
        f \in {DEFAULT_FUNCTION_POINT,
               [tags |-> [minion |-> Str("{id}"), user |-> Str("{user}")]]},
        t \in {<<>>, <<<<"test\\.ping", One([measurement |-> "ping"])>>>>}}

EngineOpts ==
    {Dict(<<<<"id", Str("m1_master")>>, <<"__role", Str("master")>>>>),
     Dict(<<<<"id", Str("m1")>>, <<"__role", Str("minion")>>,
            <<"master_uri", Str("tcp://10.0.0.1:4506")>>>>),
     Dict(<<<<"id", Str("m2")>>>>)}

Environments ==
    {[version |-> "3006.1+12.gabc", frozen |-> TRUE,
      num_keys |-> Return(PyInt(3)),
      procs_cnt |-> Return(PyInt(2)),
      procs_mem |-> Return(PyInt(1024)),
      startup |-> Return(Float("1700000000.5")),
      grains |-> Return(Dict(<<<<"os", Str("Debian")>>>>)),
      pillar |-> Return(Dict(<<>>))],
     [version |-> "3006.1", frozen |-> FALSE,
      num_keys |-> Raise("KeyError"),
      procs_cnt |-> Raise("NameError"),
      procs_mem |-> Raise("NameError"),
      startup |-> Raise("KeyError"),
      grains |-> Raise("KeyError"),
      pillar |-> Raise("KeyError")]}

OutputTemplates ==
    {NoFmt,
     One([tags |-> [host |-> Str("{opts[id]}"),
                    startup |-> Str("{salt_startup_time}")]])}

PointEvents ==
    {Dict(<<<<"tag", Str("my/custom/event")>>, <<"data", d>>>>) :
        d \in {Dict(<<<<"id", Str("db1")>>>>), Dict(<<>>)}}
    \cup {EventOf("salt/auth")}

InitPoints ==
    /\ context = NoContext
    /\ result = Pending
    /\ \/ /\ options \in ReturnConfigs
          /\ call \in {[op |-> "returner", ret |-> r] : r \in Returns}
       \/ /\ options = DefaultConfig
          /\ call \in {[op |-> "engine", opts |-> o, env |-> e,
                        output_template |-> t] :
                        o \in EngineOpts, e \in Environments,
                        t \in OutputTemplates}
       \/ /\ options \in {c \in EventConfigs :
                            /\ c.events_allowlist = <<>>
                            /\ c.events_blocklist = DEFAULT_EVENTS_BLOCKLIST}
          /\ call \in {[op |-> "event_return", events |-> <<e>>] :
                        e \in PointEvents}

\* returner(ret)
Returner ==
    /\ call.op = "returner"
    /\ result = Pending
    /\ \E r \in {returner(options, context, call.ret)} :
       result' = [written |-> r.written, aborted |-> r.aborted]
    /\ UNCHANGED <<options, context, call>>

(* One pass of the loop of InfluxDB2Exporter.run; self.running is never    *)
(* cleared, the model stops after MaxTicks passes.                         *)
EngineRun ==
    /\ call.op = "engine"
    /\ \/ result = Pending
       \/ /\ result # Pending
          /\ result.aborted = ""
          /\ Len(result.written) \in 1..(MaxTicks - 1)
    /\ \E r \in {RunOnce(InfluxDB2Exporter(call.opts, call.output_template),
                        call.opts, call.env)} :
       LET before == IF result = Pending THEN <<>> ELSE result.written
       IN result' = IF r.st = "raise"
                    THEN [written |-> before, aborted |-> r.exc]
                    ELSE [written |-> before \o r.v, aborted |-> ""]
    /\ UNCHANGED <<options, context, call>>

NextPoints == Returner \/ EngineRun \/ EventReturn

SpecPoints == InitPoints /\ [][NextPoints]_vars

(* C10: in every point written by returner, by event_return and by the     *)
(* engine's loop, a tag whose expression rendered to null is the empty     *)
(* string.                                                                 *)
C10_NullTagIsEmptyString ==
    (call.op \in {"returner", "engine", "event_return"} /\ result # Pending) =>
        \A i \in 1..Len(result.written) :
            \A k \in DOMAIN result.written[i].record.tags :
                result.written[i].rendered[k] = None =>
                    result.written[i].record.tags[k] = ""

(***************************************************************************)
(* StateSum on its own: one StateSum is made from a state return, its      *)
(* accessors are called in any order, and the caller may change the        *)
(* sub-results of the return between two calls.  The object holds a        *)
(* reference to the return, so a change shows in self.data.                *)
(***************************************************************************)
MaxSubs == 4
MaxCalls == 3

\* what a state function reports for one state: result, changes, duration
OkChanged ==
    Dict(<<<<"result", Bool(TRUE)>>,
           <<"changes", Dict(<<<<"pkg", Str("new")>>>>)>>,
           <<"duration", PyInt(3)>>>>)
Neutral ==
    Dict(<<<<"result", None>>, <<"changes", Dict(<<>>)>>,
           <<"duration", PyInt(1)>>>>)
Failed == Dict(<<<<"result", Bool(FALSE)>>, <<"comment", Str("no")>>>>)

SubResultKinds == {OkChanged, Neutral, Failed}

StateIds == <<"s1", "s2", "s3", "s4", "s5", "s6">>

\* the return of a state run with the sub-results subs
StateReturn(subs) ==
    Dict(<<<<"fun", Str("state.apply")>>,
           <<"return", Dict([i \in 1..Len(subs) |-> <<StateIds[i], subs[i]>>])>>>>)

StateReturns ==
    {StateReturn(subs) :
        subs \in UNION {[1..n -> SubResultKinds] : n \in 0..MaxSubs}}

Accessors ==
    {"succeeded", "succeeded_pct", "failed", "failed_pct", "total",
     "changed", "changed_pct", "duration"}

\* ssum.<name>(_)
Accessor(name, self) ==
    CASE name = "succeeded" -> succeeded(self)
      [] name = "succeeded_pct" -> succeeded_pct(self)
      [] name = "failed" -> failed(self)
      [] name = "failed_pct" -> failed_pct(self)
      [] name = "total" -> total(self)
      [] name = "changed" -> changed(self)
      [] name = "changed_pct" -> changed_pct(self)
      [] name = "duration" -> duration(self)

(* context holds the object, the number of accessor calls made, the number *)
(* of passes that ran and the return as it was when the first pass ran.    *)
InitSum ==
    /\ options = NoOptions
    /\ \E ret \in StateReturns :
        context = [ssum |-> StateSum(ret), calls |-> 0, passes |-> 0,
                   summed |-> None]
    /\ call = [op |-> "ssum"]
    /\ result = Pending

\* one accessor call on the object
Access ==
    /\ call.op = "ssum"
    /\ context.calls < MaxCalls
    /\ \E name \in Accessors :
       \E s \in {Accessor(name, context.ssum)} :
          /\ context' = [ssum |-> s.self,
                         calls |-> context.calls + 1,
                         passes |-> context.passes + (IF s.ran THEN 1 ELSE 0),
                         summed |-> IF s.ran /\ context.passes = 0
                                    THEN context.ssum.data
                                    ELSE context.summed]
          /\ result' = [name |-> name, r |-> s.r]
    /\ UNCHANGED <<options, call>>

\* the sub-results of ret without the last one
WithoutLast(ret) ==
    LET subs == SubResults(ret) IN
    StateReturn(SubSeq(subs, 1, Len(subs) - 1))

\* the sub-results of ret and one more
WithOneMore(ret, single) == StateReturn(Append(SubResults(ret), single))

\* the caller removes a sub-result from the return or adds a failed one
Mutate ==
    /\ call.op = "ssum"
    /\ \E ret \in {WithoutLast(context.ssum.data),
                   WithOneMore(context.ssum.data, Failed)} :
          /\ Len(SubResults(ret)) <= MaxSubs
          /\ ret # context.ssum.data
          /\ context' = [context EXCEPT !.ssum.data = ret]
    /\ UNCHANGED <<options, call, result>>

NextSum == Access \/ Mutate

SpecSum == InitSum /\ [][NextSum]_vars

\* an accessor has returned
Accessed == call.op = "ssum" /\ result # Pending

\* the sub-results the first pass ran over
SummedSubs == SubResults(context.summed)

\* how many of subs satisfy the test on the recorded result
NumResult(subs, results) ==
    Cardinality({i \in 1..Len(subs) : GetKey(subs[i], "result") \in results})

(* C12: total is the number of sub-results, failed the number whose result *)
(* is exactly False, succeeded every other one (a None result included),   *)
(* so total = succeeded + failed; changed is the number of sub-results     *)
(* with non-empty changes.                                                 *)
C12_Counts ==
    (Accessed /\ context.passes > 0) =>
        /\ context.ssum._total = PyInt(Len(SummedSubs))
        /\ context.ssum._failed = PyInt(NumResult(SummedSubs, {Bool(FALSE)}))
        /\ context.ssum._succeeded
            = PyInt(NumResult(SummedSubs, {Bool(TRUE), None}))
        /\ context.ssum._total.n
            = context.ssum._succeeded.n + context.ssum._failed.n
        /\ context.ssum._changed
            = PyInt(Cardinality({i \in 1..Len(SummedSubs) :
                    HasKey(SummedSubs[i], "changes")
                    /\ GetKey(SummedSubs[i], "changes") # Dict(<<>>)}))
        /\ (result.r.st = "ok" /\ result.name = "total")
                => result.r.v = context.ssum._total
        /\ (result.r.st = "ok" /\ result.name = "failed")
                => result.r.v = context.ssum._failed
        /\ (result.r.st = "ok" /\ result.name = "succeeded")
                => result.r.v = context.ssum._succeeded
        /\ (result.r.st = "ok" /\ result.name = "changed")
                => result.r.v = context.ssum._changed

\* four sub-results, three succeeded of which one neutral, one failed
C12_Example ==
    StateReturn(<<OkChanged, Neutral, OkChanged, Failed>>)

\* C12's example: total=4, succeeded=3, failed=1, failed_pct=25.0
C12_Witness ==
    /\ Accessed
    /\ context.summed = C12_Example
    /\ result = [name |-> "failed_pct", r |-> Return(Float("25.0"))]
    /\ context.ssum._total = PyInt(4)
    /\ context.ssum._succeeded = PyInt(3)
    /\ context.ssum._failed = PyInt(1)

\* what the accessor name gives on a new StateSum made from ret
FirstPass(name, ret) == Accessor(name, StateSum(ret)).r

(* C13: over any sequence of accessor calls on one StateSum the pass over  *)
(* the sub-results runs at most once, and after a change of the return     *)
(* every later accessor gives what the first pass gave.                    *)
C13_Memoized ==
    Accessed =>
        /\ context.passes <= 1
        /\ result.r = FirstPass(result.name, context.summed)

(* C13's case: a later accessor call, after the return was changed, gives  *)
(* the value of the first pass where a new pass would give another.        *)
C13_Witness ==
    /\ Accessed
    /\ context.calls >= 2
    /\ context.passes = 1
    /\ context.ssum.data # context.summed
    /\ result.r.st = "ok"
    /\ result.r # FirstPass(result.name, context.ssum.data)

PctAccessors == {"succeeded_pct", "failed_pct", "changed_pct"}

(* C14: succeeded_pct, failed_pct and changed_pct on a state return with   *)
(* no sub-results (total = 0) do not raise and return a value.             *)
C14_PctOfNothing ==
    (Accessed /\ result.name \in PctAccessors
        /\ context.ssum._total = PyInt(0)) => result.r.st = "ok"

\* with at least one sub-result summed the percentages return a float
C14_OnSomeSubResults ==
    (Accessed /\ result.name \in PctAccessors
        /\ context.ssum._total # PyInt(0)) =>
            (result.r.st = "ok" /\ result.r.v.ty = "float")

(***************************************************************************)
(* The filter matcher on its own: a pattern list, as functions_allowlist   *)
(* and functions_blocklist hold one, and a string are drawn and _re_match  *)
(* answers.                                                                *)
(***************************************************************************)
MaxPatterns == 2

FilterPatterns == {"a+", "b", "ab", "(a|b)c", "("}
FilterData == {"aaa", "b", "c", "", "ab", "ac", "a"}

PatternLists == UNION {[1..n -> FilterPatterns] : n \in 0..MaxPatterns}

InitFilter ==
    /\ options = NoOptions
    /\ context = NoContext
    /\ call \in {[op |-> "_re_match", patterns |-> ps, data |-> Str(d)] :
                    ps \in PatternLists, d \in FilterData}
    /\ result = Pending

\* _re_match(patterns, data); context holds what the call logged
MatchAny ==
    /\ call.op = "_re_match"
    /\ result = Pending
    /\ result' = Return(_re_match(call.patterns, call.data))
    /\ context' = [log |-> MatchErrors(_join_regex(call.patterns), call.data)]
    /\ UNCHANGED <<options, call>>

NextFilter == MatchAny

SpecFilter == InitFilter /\ [][NextFilter]_vars

\* s fully matches the pattern p on its own
FullyMatches(p, s) == ~IsBad(Ast(p)) /\ fullmatch(Ast(p), s).matched

\* s fully matches at least one pattern of the list
SomePatternMatches(patterns, s) ==
    \E i \in 1..Len(patterns) : FullyMatches(patterns[i], s)

(* C15: the matcher of a pattern list answers true for a string exactly    *)
(* when the string fully matches at least one pattern of the list; the     *)
(* matcher of the empty list answers false for every string, the empty     *)
(* string included.                                                        *)
C15_TrueIffSomePatternMatches ==
    (call.op = "_re_match" /\ result # Pending) =>
        result.v = SomePatternMatches(call.patterns, call.data.s)

\* C15 on lists whose patterns all compile, the empty list on "" left out
C15_OnCompilingPatterns ==
    (/\ call.op = "_re_match" /\ result # Pending
     /\ \A i \in 1..Len(call.patterns) : ~IsBad(Ast(call.patterns[i]))
     /\ ~(call.patterns = <<>> /\ call.data.s = "")) =>
        result.v = SomePatternMatches(call.patterns, call.data.s)

\* C15's special case: the empty list answers false for every string
C15_EmptyListMatchesNothing ==
    (call.op = "_re_match" /\ result # Pending /\ call.patterns = <<>>) =>
        result.v = FALSE

(***************************************************************************)
(* Task texts: a Task is written with to_flux and the text is read back    *)
(* with from_flux, or from_flux reads a text written by hand.              *)
(***************************************************************************)
TaskNames == {"t", "a b", "a,b"}
TaskQueries == {"from(bucket:\"b\")", "import \"date\"\nfrom(bucket:\"b\")"}
TaskEverys == {None, Str("1m")}
TaskCrons == {None, Str("0 0 * * *"), Str("0,30 * * * *")}
TaskOffsets == {None, Str("5s")}

Tasks ==
    {Task(Str(n), Str(q), e, c, o) :
        n \in TaskNames, q \in TaskQueries, e \in TaskEverys,
        c \in TaskCrons, o \in TaskOffsets}

FluxTexts ==
    {"", "from(bucket:\"b\")\n",
     "option task = {name: \"t\", every: 1m}\n\nfrom(bucket:\"b\")\n",
     "option task = {every: 1m}\n\nfrom(bucket:\"b\")\n",
     "option task = {name: \"t\", retry: 5}\n\nfrom(bucket:\"b\")\n",
     "option task = {name: \"t\", concurrency: 2, every: 1h}\n\nq\n",
     "option task = {}\nfrom(bucket:\"b\")\n",
     "option task = {name: \"t\"",
     "option task = {name: \"t\",\n every: 1m}\nq\n"}

InitTask ==
    /\ options = NoOptions
    /\ context = NoContext
    /\ call \in {[op |-> "to_flux", task |-> t] : t \in Tasks}
            \cup {[op |-> "from_flux", flux |-> f, task |-> None] :
                    f \in FluxTexts}
    /\ result = Pending

\* t.to_flux(), the text being handed to from_flux next
ToFlux ==
    /\ call.op = "to_flux"
    /\ call' = [op |-> "from_flux", flux |-> to_flux(call.task),
                task |-> call.task]
    /\ UNCHANGED <<options, context, result>>

\* Task.from_flux(flux)
FromFlux ==
    /\ call.op = "from_flux"
    /\ result = Pending
    /\ result' = from_flux(call.flux)
    /\ UNCHANGED <<options, context, call>>

NextTask == ToFlux \/ FromFlux

SpecTask == InitTask /\ [][NextTask]_vars

\* from_flux has read the text to_flux wrote for call.task
ReadBack == call.op = "from_flux" /\ call.task # None /\ result # Pending

(* C16: Task.from_flux(t.to_flux()) has the name, query, every, cron and   *)
(* offset of t, unset options staying unset, for all option values without *)
(* a closing brace, values with commas or spaces included.                 *)
C16_RoundTrip == ReadBack => result = Return(call.task)

\* C16 for tasks whose name and cron hold no comma
C16_OnValuesWithoutComma ==
    (/\ ReadBack
     /\ ~Contains(call.task.name.s, ",")
     /\ call.task.cron # None => ~Contains(call.task.cron.s, ",")) =>
        result = Return(call.task)

(* C17: Task.from_flux either fails with the parse error                   *)
(* (CommandExecutionError) or returns a Task; a block without name or with *)
(* another option key does not fail with another kind of error.            *)
C17_ParseErrorOrTask ==
    (call.op = "from_flux" /\ result # Pending /\ result.st = "raise") =>
        result.exc = "CommandExecutionError"

\* C17's first case: a text without an option block gives the parse error
C17_NoBlockIsParseError ==
    (call.op = "from_flux" /\ result # Pending
        /\ OptionsFrom(call.flux, 1).st = "raise") =>
            result = Raise("CommandExecutionError")

\* a Task that from_flux returns holds every option of the block
C17_ReturnedTaskIsWhole ==
    (call.op = "from_flux" /\ result # Pending /\ result.st = "ok") =>
        LET parsed == PairsDict(FindOptions(OptionsFrom(call.flux, 1).v, 1)) IN
        \A k \in DOMAIN parsed : result.v[k] = Str(parsed[k])

(***************************************************************************)
(* event_return in a long-lived process whose configuration changes:       *)
(* between two calls the lists or the routes of the influxdb2 profile are  *)
(* changed, __context__ staying as the calls before left it.               *)
(***************************************************************************)
ReloadConfigs ==
    {[DefaultConfig EXCEPT
        !.events_allowlist = a,
        !.events_blocklist = b,
        !.event_point_fmt_tag = r] :
        a \in {<<>>, <<"my/.*">>},
        b \in {<<>>, <<"my/other/event">>},
        r \in {<<>>,
               <<<<"my/custom/event",
                   One([measurement |-> "custom",
                        tags |-> [minion |-> Str("{data:id}")]])>>>>}}

InitReload ==
    /\ options \in ReloadConfigs
    /\ context = NoContext
    /\ call \in {[op |-> "event_return", events |-> b] : b \in EventBatches}
    /\ result = Pending

\* the configuration is changed after a call; the next batch is handed over
Reconfigure ==
    /\ call.op = "event_return"
    /\ result # Pending
    /\ options' \in ReloadConfigs \ {options}
    /\ result' = Pending
    /\ UNCHANGED <<context, call>>

NextReload == EventReturn \/ Reconfigure

SpecReload == InitReload /\ [][NextReload]_vars

\* what a process that starts with the configuration in force would write
WrittenAfresh == event_return(options, NoContext, call.events).written

(* C18: after events_allowlist, events_blocklist or event_point_fmt_tag    *)
(* changed between two calls, the second call filters and routes by the    *)
(* new configuration: the compiled lists and routes kept in __context__    *)
(* are not used past a change.                                             *)
C18_NewConfigurationApplies ==
    (call.op = "event_return" /\ result # Pending) =>
        result.written = WrittenAfresh

\* an entry of __context__ is never replaced, whatever the configuration
C18_CacheEntriesStay ==
    [][\A k \in DOMAIN context :
            k \in DOMAIN context' /\ context'[k] = context[k]]_vars

(***************************************************************************)
(* Batches with malformed events: an event without a tag, without data or  *)
(* with data that is no mapping stands next to well-formed ones.           *)
(***************************************************************************)
NoTagEvent == Dict(<<<<"data", Dict(<<<<"id", Str("db1")>>>>)>>>>)
NoDataEvent == Dict(<<<<"tag", Str("my/custom/event")>>>>)
NullDataEvent == Dict(<<<<"tag", Str("my/custom/event")>>, <<"data", None>>>>)

MixedEvents ==
    {EventOf("my/custom/event"), EventOf("my/other/event"),
     NoTagEvent, NoDataEvent, NullDataEvent}

MixedBatches == UNION {[1..n -> MixedEvents] : n \in 0..MaxBatch}

InitMixed ==
    /\ options \in EventConfigs
    /\ context = NoContext
    /\ call \in {[op |-> "event_return", events |-> b] : b \in MixedBatches}
    /\ result = Pending

NextMixed == EventReturn

SpecMixed == InitMixed /\ [][NextMixed]_vars

\* an event with a str tag and a mapping as data
WellFormed(event) ==
    /\ HasKey(event, "tag") /\ GetKey(event, "tag").ty = "str"
    /\ HasKey(event, "data") /\ GetKey(event, "data").ty = "dict"

\* is the event written when it is handed over alone
WrittenAlone(event) ==
    event_return(options, NoContext, <<event>>).written # <<>>

\* is the i-th event of the batch among the written points
WrittenFromBatch(i) ==
    \E j \in 1..Len(result.written) : result.written[j].src = i

(* C19: one malformed event never aborts the batch: every well-formed      *)
(* event that passes the filters is written, whether or not another event  *)
(* of the batch, before or after it, lacks a tag or data or fails to       *)
(* render.                                                                 *)
C19_MalformedEventSkippedAlone ==
    (call.op = "event_return" /\ result # Pending) =>
        \A i \in 1..Len(call.events) :
            (WellFormed(call.events[i]) /\ WrittenAlone(call.events[i]))
                => WrittenFromBatch(i)

\* C19 on batches in which every event has a tag
C19_OnTaggedEvents ==
    (/\ call.op = "event_return" /\ result # Pending
     /\ \A i \in 1..Len(call.events) : HasKey(call.events[i], "tag")) =>
        \A i \in 1..Len(call.events) :
            (WellFormed(call.events[i]) /\ WrittenAlone(call.events[i]))
                => WrittenFromBatch(i)

(***************************************************************************)
(* Route tables that may hold a pattern re cannot compile: the RegexDict   *)
(* is constructed in one step and a key is looked up in the next, with     *)
(* compile_ptrn as event_return (True) and returner (False) pass it.       *)
(***************************************************************************)
MixedPatterns == {"a.*", "b", "("}
MixedKeys == {"abc", "b", "", "x"}

MixedTables ==
    {[i \in 1..Len(ps) |-> <<ps[i], PayloadOf(ps[i])>>] :
        ps \in {q \in UNION {[1..n -> MixedPatterns] : n \in 1..MaxRoutes} :
                    \A i, j \in 1..Len(q) : i # j => q[i] # q[j]}}

InitBuild ==
    /\ options = NoOptions
    /\ context = NoContext
    /\ call \in {[op |-> "RegexDict", mappings |-> m, key |-> k,
                  compile_ptrn |-> c] :
                    m \in MixedTables, k \in MixedKeys, c \in BOOLEAN}
    /\ result = Pending

\* RegexDict(mappings, compile_ptrn=...): the object is kept, or it raises
Build ==
    /\ call.op = "RegexDict"
    /\ result = Pending
    /\ \E rd \in {RegexDict(call.mappings, call.compile_ptrn)} :
          IF rd.st = "raise"
          THEN result' = rd /\ UNCHANGED <<context, call>>
          ELSE /\ context' = [rd |-> rd.v]
               /\ call' = [call EXCEPT !.op = "__getitem__"]
               /\ UNCHANGED result
    /\ UNCHANGED options

\* rd[key] on the object constructed before
LookupBuilt ==
    /\ call.op = "__getitem__"
    /\ result = Pending
    /\ result' = RegexDict__getitem__(context.rd, call.key)
    /\ UNCHANGED <<options, context, call>>

NextBuild == Build \/ LookupBuilt

SpecBuild == InitBuild /\ [][NextBuild]_vars

\* does the table hold a pattern re cannot compile
HasMalformed(mappings) ==
    \E i \in 1..Len(mappings) : IsBad(Ast(mappings[i][1]))

(* C20: a malformed route pattern is reported when the RegexDict is        *)
(* constructed, not when a key is looked up, with compile_ptrn=False as    *)
(* with compile_ptrn=True.                                                 *)
C20_ReportedAtConstruction ==
    /\ (call.op = "__getitem__") => ~HasMalformed(call.mappings)
    /\ (call.op = "__getitem__" /\ result # Pending)
            => result # Raise("re.error")

\* C20 for the tables constructed with compile_ptrn=True
C20_WhenCompiled ==
    (call.compile_ptrn /\ HasMalformed(call.mappings)) =>
        /\ call.op = "RegexDict"
        /\ result \in {Pending, Raise("re.error")}

(***************************************************************************)
(* Configured default transformations: event_point_fmt and                 *)
(* function_point_fmt are set in the profile, and the specific templates   *)
(* leave out parts of a point.                                             *)
(***************************************************************************)
CustomEventPoint ==
    [measurement |-> "myevents",
     fields |-> [id |-> Str("{data:id}")],
     tags |-> [src |-> Str("{tag}")]]

CustomFunctionPoint ==
    [measurement |-> "myreturns",
     fields |-> [code |-> Str("{retcode}")],
     tags |-> [fn |-> Str("{fun}")]]

DefaultsConfigs ==
    {[DefaultConfig EXCEPT
        !.event_point_fmt = e,
        !.event_point_fmt_tag = t,
        !.function_point_fmt = f,
        !.function_point_fmt_fun = u] :
        e \in {DEFAULT_EVENT_POINT, CustomEventPoint},
        t \in {<<>>,
               <<<<"my/custom/event", One([measurement |-> "custom"])>>>>,
               <<<<"my/custom/event",
                   One([tags |-> [minion |-> Str("{data:id}")]])>>>>},
        f \in {DEFAULT_FUNCTION_POINT, CustomFunctionPoint},
        u \in {<<>>, <<<<"test\\.ping", One([measurement |-> "ping"])>>>>}}

InitDefaults ==
    /\ options \in DefaultsConfigs
    /\ context = NoContext
    /\ call \in {[op |-> "event_return", events |-> <<EventOf(t)>>] :
                    t \in {"my/custom/event", "my/other/event"}}
            \cup {[op |-> "returner", ret |-> r] : r \in Returns}
    /\ result = Pending

NextDefaults == EventReturn \/ Returner

SpecDefaults == InitDefaults /\ [][NextDefaults]_vars

\* the payload of the first pattern of the table that fully matches key
FirstMatch(table, key) ==
    LET hits == {i \in 1..Len(table) : fullmatch(Ast(table[i][1]), key).matched}
    IN IF hits = {} THEN NoFmt
       ELSE table[CHOOSE i \in hits : \A j \in hits : i <= j][2]

\* the specific template of the call, NoFmt when no pattern matches
SpecificFmt ==
    IF call.op = "event_return"
    THEN FirstMatch(options.event_point_fmt_tag, TagOf(call.events[1]))
    ELSE FirstMatch(options.function_point_fmt_fun, GetKey(call.ret, "fun").s)

\* the configured default transformation of the call
ConfiguredDefault ==
    IF call.op = "event_return" THEN options.event_point_fmt
    ELSE options.function_point_fmt

\* is the written point made of part from the template fmt
PartFrom(fmt, part) ==
    IF part = "measurement"
    THEN result.written[1].record.measurement = fmt.measurement
    ELSE DOMAIN result.written[1].record[part] = DOMAIN fmt[part]

\* one point was written for an event, or for a return that is no state run
PointWritten ==
    /\ call.op \in {"event_return", "returner"}
    /\ result # Pending
    /\ Len(result.written) = 1
    /\ call.op = "returner" => GetKey(call.ret, "fun").s \notin STATE_FUNCTIONS

(* C21: a part (measurement, tags, fields) that a tag-specific or          *)
(* function-specific template leaves out is taken from the configured      *)
(* default transformation, and an event whose tag matches no specific      *)
(* pattern is rendered with the configured event_point_fmt.                *)
C21_OmittedPartFromConfiguredDefault ==
    PointWritten =>
        \A part \in {"measurement", "tags", "fields"} :
            IF SpecificFmt # NoFmt /\ part \in DOMAIN SpecificFmt.fmt
            THEN PartFrom(SpecificFmt.fmt, part)
            ELSE PartFrom(ConfiguredDefault, part)

\* C21 where the configured default is the one of the source
C21_OnBuiltInDefaults ==
    (/\ PointWritten
     /\ options.event_point_fmt = DEFAULT_EVENT_POINT
     /\ options.function_point_fmt = DEFAULT_FUNCTION_POINT) =>
        \A part \in {"measurement", "tags", "fields"} :
            IF SpecificFmt # NoFmt /\ part \in DOMAIN SpecificFmt.fmt
            THEN PartFrom(SpecificFmt.fmt, part)
            ELSE PartFrom(ConfiguredDefault, part)

\* a return that matches no function-specific pattern: function_point_fmt
C21_ReturnWithoutSpecific ==
    (PointWritten /\ call.op = "returner" /\ SpecificFmt = NoFmt) =>
        \A part \in {"measurement", "tags", "fields"} :
            PartFrom(options.function_point_fmt, part)

(***************************************************************************)
(* The choice of the template in returner: function-specific templates,    *)
(* the state template and the default one are all configured, each with a  *)
(* part of its own.                                                        *)
(***************************************************************************)
CustomStatePoint ==
    [measurement |-> "mystates",
     fields |-> [failed |-> Str("{states_failed}")],
     tags |-> [state |-> Str("{state_name}")]]

FunTables ==
    {<<>>,
     <<<<"test\\.ping", One([measurement |-> "ping"])>>>>,
     <<<<"state\\..*", One([measurement |-> "st",
                            tags |-> [minion |-> Str("{id}")]])>>>>,
     <<<<"(db|app)\\d+", One([measurement |-> "hosts"])>>,
       <<"test\\.ping", One([measurement |-> "ping"])>>>>,
     <<<<"test\\.ping", One(EmptyFmt)>>>>}

ChoiceConfigs ==
    {[DefaultConfig EXCEPT
        !.function_point_fmt = f,
        !.function_point_fmt_state = s,
        !.function_point_fmt_fun = u] :
        f \in {DEFAULT_FUNCTION_POINT, CustomFunctionPoint},
        s \in {DEFAULT_STATE_POINT, CustomStatePoint},
        u \in FunTables}

InitChoice ==
    /\ options \in ChoiceConfigs
    /\ context = NoContext
    /\ call \in {[op |-> "returner", ret |-> r] : r \in Returns}
    /\ result = Pending

NextChoice == Returner

SpecChoice == InitChoice /\ [][NextChoice]_vars

\* is the return one of a state function with a mapping as return
IsStateRun(ret) ==
    /\ GetKey(ret, "fun").s \in STATE_FUNCTIONS
    /\ GetKey(ret, "return").ty = "dict"

(* the template by the stated priority: the function-specific one whose    *)
(* pattern matches fun, else the state one for a state run, else the       *)
(* default one                                                             *)
ChosenFmt ==
    LET specific == FirstMatch(options.function_point_fmt_fun,
                               GetKey(call.ret, "fun").s)
    IN IF specific # NoFmt THEN specific.fmt
       ELSE IF IsStateRun(call.ret) THEN options.function_point_fmt_state
       ELSE options.function_point_fmt

\* the written point has its part from fmt, or from the source's default
PartAsChosen(fmt, part) ==
    PartFrom([p \in {part} |-> FmtGet(fmt, part, DEFAULT_FUNCTION_POINT[part])],
             part)

\* the one point of the return is made by the template fmt
RenderedWith(fmt) ==
    /\ Len(result.written) = 1
    /\ \A part \in {"measurement", "tags", "fields"} : PartAsChosen(fmt, part)

(* C22: returner renders a return with the function_point_fmt_fun entry    *)
(* whose pattern fully matches fun; else with function_point_fmt_state     *)
(* when fun is a state function and the return is a mapping; else with     *)
(* function_point_fmt.  A state function with a list as return is never    *)
(* rendered with the state template.                                       *)
C22_TemplateByPriority ==
    (call.op = "returner" /\ result # Pending) => RenderedWith(ChosenFmt)

\* has the table a pattern with a group of its own or an empty template
Irregular(table) ==
    \E i \in 1..Len(table) :
        \/ NGroups(Ast(table[i][1])) > 0
        \/ table[i][2] = One(EmptyFmt)

\* C22 on tables of patterns without groups and templates that are not empty
C22_OnRegularTables ==
    (/\ call.op = "returner" /\ result # Pending
     /\ ~Irregular(options.function_point_fmt_fun)) =>
        RenderedWith(ChosenFmt)

\* C22's last case: a failed render never gets the state template
C22_ListReturnIsNoStateRun ==
    (/\ call.op = "returner" /\ result # Pending
     /\ GetKey(call.ret, "return").ty = "list"
     /\ FirstMatch(options.function_point_fmt_fun,
                   GetKey(call.ret, "fun").s) = NoFmt) =>
        RenderedWith(options.function_point_fmt)

(***************************************************************************)
(* The variable {master} in event templates: the route of my/custom/event  *)
(* names it alone or within other text, as a tag and as a field.           *)
(***************************************************************************)
MasterIds == {"master1", "salt"}
MasterTemplates == {Str("{master}"), Str("m-{master}"), Str("{master}/{tag}")}

MasterConfigs ==
    {[DefaultConfig EXCEPT
        !.id = i,
        !.event_point_fmt_tag =
            <<<<"my/custom/event",
                One([tags |-> [master |-> t], fields |-> [master |-> t]])>>>>] :
        i \in MasterIds, t \in MasterTemplates}

InitMaster ==
    /\ options \in MasterConfigs
    /\ context = NoContext
    /\ call \in {[op |-> "event_return", events |-> b] : b \in EventBatches}
    /\ result = Pending

NextMaster == EventReturn

SpecMaster == InitMaster /\ [][NextMaster]_vars

\* the text of the template with opts["id"] and the tag put in
MasterText(template, id, tag) ==
    CASE template = Str("{master}") -> id
      [] template = Str("m-{master}") -> "m-" \o id
      [] template = Str("{master}/{tag}") -> id \o "/" \o tag

\* the template the configuration gives to the master tag and field
MasterTemplate == options.event_point_fmt_tag[1][2].fmt.tags.master

(* C23: in event templates {master} renders to opts["id"] of the master    *)
(* that posts the event, as a single reference and within a composite      *)
(* format string.                                                          *)
C23_MasterIsOptsId ==
    (call.op = "event_return" /\ result # Pending) =>
        \A i \in 1..Len(result.written) :
            LET tag == TagOf(call.events[result.written[i].src]) IN
            tag = "my/custom/event" =>
                /\ result.written[i].record.tags.master
                    = MasterText(MasterTemplate, options.id, tag)
                /\ result.written[i].record.fields.master
                    = Str(MasterText(MasterTemplate, options.id, tag))

\* what the code renders {master} to: null, the empty string as a tag
C23_MasterIsNull ==
    (call.op = "event_return" /\ result # Pending) =>
        \A i \in 1..Len(result.written) :
            TagOf(call.events[result.written[i].src]) = "my/custom/event" =>
                /\ result.written[i].record.tags.master = ""
                /\ result.written[i].record.fields.master = None

(***************************************************************************)
(* Value coercion on its own: _ensure_type is applied to a value, plain or *)
(* nested, that may hold bytes, a set or an object of another class.       *)
(***************************************************************************)
MaxItems == 2

Bytes(b) == [ty |-> "bytes", b |-> b]
PySet(items) == [ty |-> "set", items |-> items]
Object == [ty |-> "object"]

PlainValues ==
    {PyInt(7), Float("1.5"), Str("a\"b"), Bool(TRUE), None,
     Bytes(<<97, 255>>), Bytes(<<98, 10, 92>>), PySet({PyInt(1)}), Object}

CoerceValues ==
    PlainValues
        \cup {List(l) : l \in UNION {[1..n -> PlainValues] : n \in 0..MaxItems}}
        \cup {Dict(<<<<"k", v>>>>) : v \in PlainValues}

InitCoerce ==
    /\ options = NoOptions
    /\ context = NoContext
    /\ call \in {[op |-> "_ensure_type", val |-> v] : v \in CoerceValues}
    /\ result = Pending

\* self._ensure_type(val)
Coerce ==
    /\ call.op = "_ensure_type"
    /\ result = Pending
    /\ result' = _ensure_type(call.val)
    /\ UNCHANGED <<options, context, call>>

NextCoerce == Coerce

SpecCoerce == InitCoerce /\ [][NextCoerce]_vars

\* _ensure_type has answered
Coerced == call.op = "_ensure_type" /\ result # Pending

(* C24: _ensure_type returns int, float, str and bool values unchanged and *)
(* a JSON string for every other value; no exception escapes it, also for  *)
(* a value json cannot encode, such as a set or an object.                 *)
C24_NeverRaises ==
    Coerced =>
        /\ result.st = "ok"
        /\ IF IsScalar(call.val) THEN result.v = call.val
           ELSE result.v.ty = "str"

RECURSIVE HoldsUnencodable(_)
\* does the value hold a set or an object of another class
HoldsUnencodable(v) ==
    CASE v.ty \in {"set", "object"} -> TRUE
      [] v.ty = "list" -> \E i \in 1..Len(v.l) : HoldsUnencodable(v.l[i])
      [] v.ty = "dict" -> \E i \in 1..Len(v.kv) : HoldsUnencodable(v.kv[i][2])
      [] OTHER -> FALSE

\* C24 on values made of None, bool, int, float, str, bytes, list and dict
C24_OnEncodableValues ==
    (Coerced /\ ~HoldsUnencodable(call.val)) =>
        /\ result.st = "ok"
        /\ IF IsScalar(call.val) THEN result.v = call.val
           ELSE result.v.ty = "str"

\* C24's last case: bytes come out as the text of their escapes
C24_BytesAsEscapeText ==
    (Coerced /\ call.val = Bytes(<<97, 255>>)) =>
        result = Return(Str("\"a\\\\xff\""))

(***************************************************************************)
(* Path lookup on its own: a Projector without mappings is made over data  *)
(* whose keys may be absent or may store None, and a path is looked up.    *)
(***************************************************************************)
InnerValues == {PyInt(1), None, Str("")}

InnerDicts ==
    {Dict(<<>>)}
        \cup {Dict(<<<<k, v>>>>) : k \in {"b", "c"}, v \in InnerValues}
        \cup {Dict(<<<<k[1], v>>, <<k[2], w>>>>) :
                k \in {<<"b", "c">>, <<"c", "b">>},
                v \in InnerValues, w \in InnerValues}

LookupData ==
    {Dict(<<<<"a", d>>>>) : d \in InnerDicts \cup {None}} \cup {Dict(<<>>)}

LookupPaths == {"a", "a:b", "a:c", "a:c:d", "x", "x:c"}

InitPath ==
    /\ options = NoOptions
    /\ context = NoContext
    /\ call \in {[op |-> "Projector[key]", data |-> d, key |-> k] :
                    d \in LookupData, k \in LookupPaths}
    /\ result = Pending

\* Projector({}, data)[key]
PathLookup ==
    /\ call.op = "Projector[key]"
    /\ result = Pending
    /\ result' = Projector__getitem__(Projector(EmptyFmt, call.data), call.key)
    /\ UNCHANGED <<options, context, call>>

NextPath == PathLookup

SpecPath == InitPath /\ [][NextPath]_vars

RECURSIVE Stored(_, _)
\* is there a value under the keys segs of the nested mappings ptr
Stored(ptr, segs) ==
    IF segs = <<>> THEN TRUE
    ELSE /\ ptr.ty = "dict"
         /\ HasKey(ptr, Head(segs))
         /\ Stored(GetKey(ptr, Head(segs)), Tail(segs))

RECURSIVE StoredValue(_, _)
\* the value under the keys segs
StoredValue(ptr, segs) ==
    IF segs = <<>> THEN ptr
    ELSE StoredValue(GetKey(ptr, Head(segs)), Tail(segs))

\* what the template "{<key>}" renders to over the data of the call
RenderedPath ==
    Projector__call__(Projector(EmptyFmt, call.data),
                      [k \in {"k"} |-> Str("{" \o call.key \o "}")]).v.k

(* C25: a path whose key is missing makes the lookup raise KeyError, and   *)
(* the rendered value is null; a path that stores None resolves to None    *)
(* and is not taken for missing.                                           *)
C25_MissingIsNotNull ==
    (call.op = "Projector[key]" /\ result # Pending) =>
        IF Stored(call.data, Split(call.key, ":"))
        THEN result = Return(StoredValue(call.data, Split(call.key, ":")))
        ELSE result = Raise("KeyError") /\ RenderedPath = None

\* C25's second example: {"a": {"c": None}} and the path a:c
C25_Witness ==
    /\ call.op = "Projector[key]"
    /\ call.data = Dict(<<<<"a", Dict(<<<<"c", None>>>>)>>>>)
    /\ call.key = "a:c"
    /\ result = Return(None)

\* C25's first example: {"a": {"b": 1}} and the path a:c
C25_MissingExample ==
    (/\ call.op = "Projector[key]" /\ result # Pending
     /\ call.data = Dict(<<<<"a", Dict(<<<<"b", PyInt(1)>>>>)>>>>)
     /\ call.key = "a:c") =>
        result = Raise("KeyError") /\ RenderedPath = None

(***************************************************************************)
(* Lists with a pattern that does not compile: the function filter is      *)
(* asked with such a list, and event_return runs under an allowlist or a   *)
(* blocklist that holds one.                                               *)
(***************************************************************************)
MalformedConfigs ==
    {[DefaultConfig EXCEPT
        !.events_allowlist = a,
        !.events_blocklist = b] :
        a \in {<<>>, <<"my/.*">>, <<"(">>, <<"my/.*", "(">>},
        b \in {<<>>, <<"my/other/event">>, <<"(">>}}

InitMalformed ==
    /\ context = NoContext
    /\ result = Pending
    /\ \/ /\ options = NoOptions
          /\ call \in {[op |-> "_re_match", patterns |-> ps, data |-> Str(d)] :
                        ps \in PatternLists, d \in FilterData}
       \/ /\ options \in MalformedConfigs
          /\ call \in {[op |-> "event_return", events |-> b] :
                        b \in EventBatches}

NextMalformed == MatchAny \/ EventReturn

SpecMalformed == InitMalformed /\ [][NextMalformed]_vars

\* does the list hold a pattern re cannot compile
HasMalformedPattern(patterns) ==
    \E i \in 1..Len(patterns) : IsBad(Ast(patterns[i]))

(* C26: with one malformed pattern in its list _re_match answers false for *)
(* every input, raises nothing and logs the error; event_return with a     *)
(* malformed allowlist or blocklist meets the error when it compiles the   *)
(* list, logs it and returns to its caller with nothing written.           *)
C26_MalformedPatternIsLogged ==
    /\ (call.op = "_re_match" /\ result # Pending
            /\ HasMalformedPattern(call.patterns)) =>
                (result = Return(FALSE) /\ context.log # <<>>)
    /\ (call.op = "event_return" /\ result # Pending
            /\ \/ HasMalformedPattern(options.events_allowlist)
               \/ HasMalformedPattern(options.events_blocklist)) =>
                (result.written = <<>> /\ result.aborted = "re.error")

\* C26's case: a string that one pattern of the list matches, one malformed
C26_Witness ==
    /\ call.op = "_re_match"
    /\ call.patterns = <<"a+", "(">>
    /\ call.data = Str("aaa")
    /\ result = Return(FALSE)
    /\ context.log # <<>>

\* event_return has met a malformed blocklist with events in the batch
C26_EventWitness ==
    /\ call.op = "event_return"
    /\ options.events_blocklist = <<"(">>
    /\ options.events_allowlist = <<>>
    /\ call.events # <<>>
    /\ result # Pending
    /\ result.aborted = "re.error"

\* the payloads of the patterns that match the whole key
MatchedPayloads(mappings, key) ==
    {mappings[i][2] : i \in FullMatches(mappings, key)}

\* does a pattern of the table hold capture groups of its own
HasOwnGroups(mappings) ==
    \E i \in 1..Len(mappings) : NGroups(Ast(mappings[i][1])) > 0

(* C27: for every pattern list, patterns with capture groups of their own  *)
(* included, a lookup hands back the payload of an alternative that        *)
(* matched the key: never the payload of another pattern and never an      *)
(* index error.                                                            *)
C27_PayloadOfMatchedAlternative ==
    (call.op = "lookup" /\ result # Pending) =>
        /\ result # Raise("IndexError")
        /\ result.st = "ok" =>
            result.v \in MatchedPayloads(call.mappings, call.key)

\* on tables whose patterns hold no groups the payload is a matched one's
C27_OnPatternsWithoutGroups ==
    (call.op = "lookup" /\ result # Pending
        /\ ~HasOwnGroups(call.mappings)) =>
        /\ result # Raise("IndexError")
        /\ result.st = "ok" =>
            result.v \in MatchedPayloads(call.mappings, call.key)

(***************************************************************************)
(* update_task on its own: a task of the server and the arguments of the   *)
(* call are drawn, every argument given or left at NOT_SET.                *)
(***************************************************************************)
ServerSchedules ==
    {<<Str("1m"), None>>, <<None, Str("0 0 * * *")>>,
     <<None, Str("0,30 * * * *")>>}

\* the task object the server hands out for a task it holds
ServerTask(name, sched, offset, description, status) ==
    [name |-> Str(name),
     flux |-> to_flux(Task(Str(name), Str("from(bucket:\"b\")"),
                           sched[1], sched[2], offset)),
     every |-> sched[1], cron |-> sched[2], offset |-> offset,
     description |-> description, status |-> status]

ServerTasks ==
    {ServerTask("t", s, o, d, st) :
        s \in ServerSchedules, o \in {Str("5s")},
        d \in {None, Str("d")}, st \in {"active", "inactive"}}

UpdateArgs ==
    [rename : {NOT_SET, Str("u")},
     query : {NOT_SET, Str("from(bucket:\"c\")")},
     every : {NOT_SET, Str("2h")},
     cron : {NOT_SET, Str("5 4 * * *")},
     offset : {NOT_SET, Str("9s")},
     description : {NOT_SET, Str("e")},
     active : {NOT_SET, None, Bool(TRUE), Bool(FALSE)}]

InitUpdate ==
    /\ options = NoOptions
    /\ context = NoContext
    /\ call \in {[op |-> "update_task", existing |-> t, args |-> a] :
                    t \in ServerTasks, a \in UpdateArgs}
    /\ result = Pending

\* update_task(name, ...) with the task found under the name
UpdateTask ==
    /\ call.op = "update_task"
    /\ result = Pending
    /\ result' = update_task(call.existing, call.args)
    /\ UNCHANGED <<options, context, call>>

NextUpdate == UpdateTask

SpecUpdate == InitUpdate /\ [][NextUpdate]_vars

\* the submitted task keeps the attribute when the argument is not given
KeptIfNotGiven(arg, attr) ==
    call.args[arg] = NOT_SET => result.v[attr] = call.existing[attr]

(* C28: update_task changes only what the caller supplies: with active not *)
(* given the status submitted is the status the task had, and likewise     *)
(* name, every, cron, offset and description stay when not given.          *)
C28_OnlySuppliedChanges ==
    (call.op = "update_task" /\ result # Pending /\ result.st = "ok") =>
        /\ call.args.active = NOT_SET =>
                result.v.status = call.existing.status
        /\ KeptIfNotGiven("rename", "name")
        /\ KeptIfNotGiven("every", "every")
        /\ KeptIfNotGiven("cron", "cron")
        /\ KeptIfNotGiven("offset", "offset")
        /\ KeptIfNotGiven("description", "description")

\* C28 without the status: the attributes not given stay
C28_AttributesNotGivenStay ==
    (call.op = "update_task" /\ result # Pending /\ result.st = "ok") =>
        /\ KeptIfNotGiven("rename", "name")
        /\ KeptIfNotGiven("every", "every")
        /\ KeptIfNotGiven("cron", "cron")
        /\ KeptIfNotGiven("offset", "offset")
        /\ KeptIfNotGiven("description", "description")

\* the status stays when active is passed as None
C28_StatusStaysForNone ==
    (call.op = "update_task" /\ result # Pending /\ result.st = "ok"
        /\ call.args.active = None) =>
            result.v.status = call.existing.status

\* the options of the submitted flux text
SubmittedOptions == from_flux(result.v.flux)

\* with nothing of the schedule given the flux text keeps the cron option
C28_FluxKeepsCron ==
    (call.op = "update_task" /\ result # Pending /\ result.st = "ok"
        /\ call.args.cron = NOT_SET) =>
            /\ SubmittedOptions.st = "ok"
            /\ SubmittedOptions.v.cron = call.existing.cron

(***************************************************************************)
(* The state functions against a server: a server, the test flag and a     *)
(* call are drawn; the call runs, and the same state is applied again,     *)
(* with or without test mode, the outcome of the run before being kept.    *)
(***************************************************************************)
ServerBuckets ==
    {None}
    \cup {[name |-> "b", description |-> d, retention_rules |-> r] :
            d \in {None, Str(""), Str("x")},
            r \in {<<ExpireRule(PyInt(2592000))>>,
                   <<ExpireRule(PyInt(3600))>>, <<>>}}

\* tasks other clients left on the server, next to those of SpecUpdate
ForeignTasks ==
    {[name |-> Str("t"), flux |-> f, every |-> Str("1h"), cron |-> None,
      offset |-> None, description |-> None, status |-> "active"] :
        f \in {"option task = {name: \"t\", every: 1h, retry: 5}\n\nq\n",
               "option task = {\n  name: \"t\",\n  every: 1h,\n}\n\nq\n"}}

HeldTasks ==
    {None}
    \cup {ServerTask("t", s, None, d, st) :
            s \in {<<Str("1m"), None>>, <<None, Str("0 0 * * *")>>},
            d \in {None, Str("d")}, st \in {"active", "inactive"}}
    \cup ForeignTasks

BucketCalls ==
    {[op |-> "bucket_present", name |-> "b", expire |-> e,
      description |-> d] :
        e \in {Str("30d"), Str("1h"), PyInt(3600), Str("soon")},
        d \in {Str(""), Str("x")}}
    \cup {[op |-> "bucket_absent", name |-> "b"]}

TaskCalls ==
    {[op |-> "task_present", name |-> "t",
      args |-> [query |-> Str("from(bucket:\"b\")"), every |-> s[1],
                cron |-> s[2], offset |-> None, description |-> d,
                active |-> Bool(a)]] :
        s \in {<<Str("1m"), None>>, <<None, Str("0 0 * * *")>>},
        d \in {Str(""), Str("d")}, a \in BOOLEAN}
    \cup {[op |-> "task_absent", name |-> "t"]}

\* nothing ran before
NoRun == [st |-> "none"]

(* the server, the calls of the run so far, the server as the run found   *)
(* it, and the outcome of the run before                                   *)
StartAt(server) ==
    [bucket |-> server.bucket, task |-> server.task, calls |-> <<>>,
     start |-> server, before |-> NoRun]

InitStates ==
    /\ options \in [test : BOOLEAN]
    /\ \/ /\ call \in BucketCalls
          /\ context \in {StartAt([bucket |-> b, task |-> None]) :
                            b \in ServerBuckets}
       \/ /\ call \in TaskCalls
          /\ context \in {StartAt([bucket |-> None, task |-> t]) :
                            t \in HeldTasks}
    /\ result = Pending

\* the run r has happened: its outcome, the server and the calls it made
Finish(r) ==
    /\ result' = r.out
    /\ context' = [context EXCEPT !.bucket = r.srv.bucket,
                                  !.task = r.srv.task,
                                  !.calls = r.calls]
    /\ UNCHANGED <<options, call>>

BucketPresent ==
    /\ call.op = "bucket_present"
    /\ result = Pending
    /\ Finish(bucket_present(context, options.test, call.name, call.expire,
                             call.description))

BucketAbsent ==
    /\ call.op = "bucket_absent"
    /\ result = Pending
    /\ Finish(bucket_absent(context, options.test, call.name))

TaskPresent ==
    /\ call.op = "task_present"
    /\ result = Pending
    /\ Finish(task_present(context, options.test, call.name, call.args))

TaskAbsent ==
    /\ call.op = "task_absent"
    /\ result = Pending
    /\ Finish(task_absent(context, options.test, call.name))

\* the same state is applied once more, in test mode or not
Again ==
    /\ result # Pending
    /\ result' = Pending
    /\ options' \in [test : BOOLEAN]
    /\ context' = [context EXCEPT
                    !.calls = <<>>,
                    !.start = [bucket |-> context.bucket,
                               task |-> context.task],
                    !.before = [st |-> "ran", test |-> options.test,
                                out |-> result]]
    /\ UNCHANGED call

NextStates ==
    BucketPresent \/ BucketAbsent \/ TaskPresent \/ TaskAbsent \/ Again

SpecStates == InitStates /\ [][NextStates]_vars

\* the run before this one was outside test mode and reported success
SucceededBefore ==
    /\ context.before.st = "ran"
    /\ ~context.before.test
    /\ context.before.out.st = "ok"
    /\ context.before.out.v.result = Bool(TRUE)

(* C29: bucket_present converges in one run: after a run outside test mode *)
(* that reported success with changes (created or updated), the same call  *)
(* applied again reports no changes and calls neither create_bucket nor    *)
(* update_bucket, a non-empty description for a new bucket included.       *)
C29_ConvergesInOneRun ==
    (/\ call.op = "bucket_present"
     /\ result # Pending
     /\ SucceededBefore
     /\ context.before.out.v.changes # <<>>) =>
        /\ result.st = "ok"
        /\ result.v.changes = <<>>
        /\ context.calls = <<>>

\* C29 for the calls that ask for no description
C29_WithoutDescription ==
    (/\ call.op = "bucket_present"
     /\ call.description = Str("")
     /\ result # Pending
     /\ SucceededBefore
     /\ context.before.out.v.changes # <<>>) =>
        /\ result.st = "ok"
        /\ result.v.changes = <<>>
        /\ context.calls = <<>>

\* C29 for the runs that updated a bucket the server held
C29_AfterUpdate ==
    (/\ call.op = "bucket_present"
     /\ result # Pending
     /\ SucceededBefore
     /\ context.before.out.v.changes # <<>>
     /\ context.before.out.v.changes[1].key # "created") =>
        /\ result.st = "ok"
        /\ result.v.changes = <<>>
        /\ context.calls = <<>>

\* a description, None read as the empty text
Described(d) == IF d = None THEN "" ELSE d.s

\* does the server, as the run found it, differ from what the call asks for
ChangeNeeded ==
    CASE call.op = "bucket_absent" -> context.start.bucket # None
      [] call.op = "task_absent" -> context.start.task # None
      [] call.op = "bucket_present" ->
            \/ context.start.bucket = None
            \/ Described(context.start.bucket.description)
                    # Described(call.description)
            \/ context.start.bucket.retention_rules
                    # <<ExpireRule(timestring_map(call.expire).v)>>
      [] call.op = "task_present" ->
            \/ context.start.task = None
            \/ \E p \in {"every", "cron", "offset"} :
                    context.start.task[p] # call.args[p]
            \/ Described(context.start.task.description)
                    # Described(call.args.description)
            \/ (context.start.task.status = "active") # call.args.active.b
            \/ from_flux(context.start.task.flux).v.query
                    # Task(Str("t"), call.args.query, None, None, None).query

\* a run in test mode has ended
TestRunEnded == options.test /\ result # Pending

\* the return of a test run: None with the changes, or True with none
ReportsOnly ==
    /\ result.st = "ok"
    /\ \/ /\ result.v.result = None
          /\ result.v.changes # <<>>
          /\ ChangeNeeded
       \/ /\ result.v.result = Bool(TRUE)
          /\ result.v.changes = <<>>
          /\ ~ChangeNeeded

\* the run called no create, update or delete and left the server as found
NothingCalled ==
    /\ context.calls = <<>>
    /\ context.bucket = context.start.bucket
    /\ context.task = context.start.task

(* C30: in test mode bucket_present, bucket_absent, task_present and       *)
(* task_absent call no create, update or delete function and leave the     *)
(* server unchanged, and they return result None with the pending changes  *)
(* when a change is needed, or result True with no changes when none is.   *)
C30_TestModeOnlyReports ==
    TestRunEnded => (NothingCalled /\ ReportsOnly)

\* the part of C30 about the server: a test run calls and changes nothing
C30_TestRunCallsNothing ==
    TestRunEnded => NothingCalled

\* can the run read its arguments and the task the server holds
Readable ==
    CASE call.op = "bucket_present" -> timestring_map(call.expire).st = "ok"
      [] call.op = "task_present" ->
            \/ context.start.task = None
            \/ from_flux(context.start.task.flux).st = "ok"
      [] OTHER -> TRUE

\* C30 for the runs that can read their arguments and the server's task
C30_OnReadableRuns ==
    (TestRunEnded /\ Readable) => (NothingCalled /\ ReportsOnly)

====
